---------------------------- MODULE Spec2Model ----------------------------
(***************************************************************************)
(* Log Advisor: the form-submission pipeline of app.py and the three       *)
(* service clients it drives (ELKService, VegasGPTService, SynaptService). *)
(*                                                                         *)
(* Representation of Python values.                                        *)
(*   - a str is a sequence of chunks (TLA+ strings); concatenation is \o,  *)
(*     the empty str is << >>, and an f-string is the concatenation of its *)
(*     literal parts and formatted arguments;                              *)
(*   - a value decoded from JSON (or built by the code as a dict / list)   *)
(*     is a record [t, v]: t is the Python type, v the payload;            *)
(*   - None is the value PyNone.                                           *)
(***************************************************************************)
EXTENDS Integers, Sequences, FiniteSets, TLC

---------------------------------------------------------------------------
(* Python values *)

S(c) == <<c>>

PyStr(s) == [t |-> "str", v |-> s]
PyNum(n) == [t |-> "num", v |-> n]
PyList(l) == [t |-> "list", v |-> l]
PyDict(m) == [t |-> "dict", v |-> m]
PyNone == [t |-> "none", v |-> << >>]
PyBool(b) == [t |-> "bool", v |-> b]
PyTuple(l) == [t |-> "tuple", v |-> l]

\* the dict with the given <<key, value>> pairs
Dict(kvs) ==
    PyDict([k \in {S(kvs[i][1]) : i \in 1..Len(kvs)} |->
               kvs[CHOOSE i \in 1..Len(kvs) : S(kvs[i][1]) = k][2]])

\* dict.get(key, default)
Get(d, k, default) == IF k \in DOMAIN d.v THEN d.v[k] ELSE default

\* d[key] = value
SetItem(d, k, val) ==
    PyDict([x \in (DOMAIN d.v) \cup {k} |-> IF x = k THEN val ELSE d.v[x]])

\* Python truthiness of a value
Truthy(x) ==
    CASE x.t = "none" -> FALSE
      [] x.t = "str" -> x.v # << >>
      [] x.t = "list" -> x.v # << >>
      [] x.t = "dict" -> DOMAIN x.v # {}
      [] x.t = "num" -> x.v # "0"
      [] OTHER -> TRUE

\* an inner block: a raised exception carrying its text, or a returned value
Raise(msg) == [raised |-> TRUE, exc |-> msg, val |-> PyNone]
Return(val) == [raised |-> FALSE, exc |-> << >>, val |-> val]

---------------------------------------------------------------------------
(* Text: str methods, with Python's 0-based indices *)

\* str.find(c): index of the first occurrence, -1 when absent
Find(s, c) ==
    IF \E i \in 1..Len(s) : s[i] = c
    THEN (CHOOSE i \in 1..Len(s) : s[i] = c /\ \A j \in 1..(i-1) : s[j] # c) - 1
    ELSE -1

\* str.rfind(c): index of the last occurrence, -1 when absent
RFind(s, c) ==
    IF \E i \in 1..Len(s) : s[i] = c
    THEN (CHOOSE i \in 1..Len(s) : s[i] = c /\ \A j \in (i+1)..Len(s) : s[j] # c) - 1
    ELSE -1

\* str.upper
Upper(s) ==
    [i \in 1..Len(s) |->
        CASE s[i] \in {"error", "Error", "ERROR"} -> "ERROR"
          [] s[i] \in {"severe", "SEVERE"} -> "SEVERE"
          [] s[i] \in {"info", "INFO"} -> "INFO"
          [] s[i] \in {"warn", "WARN"} -> "WARN"
          [] s[i] \in {"warning", "WARNING"} -> "WARNING"
          [] s[i] \in {"debug", "DEBUG"} -> "DEBUG"
          [] s[i] \in {"exception", "Exception", "EXCEPTION"} -> "EXCEPTION"
          [] s[i] \in {"unknown"} -> "UNKNOWN"
          [] OTHER -> s[i]]

\* str.lower
Lower(s) ==
    [i \in 1..Len(s) |->
        CASE s[i] \in {"error", "Error", "ERROR"} -> "error"
          [] s[i] \in {"exception", "Exception", "EXCEPTION"} -> "exception"
          [] s[i] \in {"info", "INFO"} -> "info"
          [] s[i] \in {"boom", "Boom", "BOOM"} -> "boom"
          [] s[i] \in {"done", "Done", "DONE"} -> "done"
          [] OTHER -> s[i]]

\* `sub in s` for a one-word sub: some chunk of s has sub as a substring
Contains(s, sub) ==
    \E i \in 1..Len(s) :
        s[i] \in CASE sub = "ERROR" -> {"ERROR", "ERROR_LOG: ["}
                   [] sub = "error" -> {"error", "errors"}
                   [] OTHER -> {sub}

\* str.strip
RECURSIVE Strip(_)
Strip(s) ==
    IF s # << >> /\ Head(s) \in {" ", "\n"} THEN Strip(Tail(s))
    ELSE IF s # << >> /\ s[Len(s)] \in {" ", "\n"} THEN Strip(SubSeq(s, 1, Len(s) - 1))
    ELSE s

\* s.split('\n') is Split(s, << >>, << >>): always at least one line
RECURSIVE Split(_, _, _)
Split(s, cur, acc) ==
    IF s = << >> THEN Append(acc, cur)
    ELSE IF Head(s) = "\n" THEN Split(Tail(s), << >>, Append(acc, cur))
    ELSE Split(Tail(s), Append(cur, Head(s)), acc)

\* str(x) / f"{x}" of a value
Fmt(x) ==
    CASE x.t = "str" -> x.v
      [] x.t = "num" -> <<x.v>>
      [] x.t = "none" -> <<"None">>
      [] x.t = "list" -> <<"[...]">>
      [] OTHER -> <<"{...}">>

\* str(n) of an int
Digits(n) ==
    CASE n = 0 -> "0" [] n = 1 -> "1" [] n = 2 -> "2" [] n = 3 -> "3"
      [] n = 200 -> "200" [] n = 204 -> "204" [] n = 404 -> "404" [] n = 500 -> "500" [] n = 503 -> "503"
      [] OTHER -> "n"

---------------------------------------------------------------------------
(* json.loads over a token text *)

ParseFail == [ok |-> FALSE, val |-> PyNone, next |-> 0]
ParseOk(val, next) == [ok |-> TRUE, val |-> val, next |-> next]

\* the index of the first token at or after i that is not whitespace
RECURSIVE SkipWS(_, _)
SkipWS(s, i) ==
    IF i <= Len(s) /\ s[i] \in {" ", "\n"} THEN SkipWS(s, i + 1) ELSE i

At(s, i, c) == i <= Len(s) /\ s[i] = c

\* the chunks of a string literal whose opening quote is at i - 1
RECURSIVE ParseChunks(_, _, _)
ParseChunks(s, i, acc) ==
    IF i > Len(s) THEN ParseFail
    ELSE IF s[i] = "\"" THEN ParseOk(PyStr(acc), i + 1)
    ELSE IF s[i] = "\n" THEN ParseFail
    ELSE ParseChunks(s, i + 1, Append(acc, s[i]))

RECURSIVE ParseValue(_, _)
RECURSIVE ParseItems(_, _, _)
RECURSIVE ParseMembers(_, _, _)

\* after an item r of a list: a comma and the next item, or the end
ItemsAfter(s, r, acc) ==
    IF ~r.ok THEN ParseFail
    ELSE IF At(s, SkipWS(s, r.next), ",")
    THEN ParseItems(s, SkipWS(s, SkipWS(s, r.next) + 1), Append(acc, r.val))
    ELSE IF At(s, SkipWS(s, r.next), "]")
    THEN ParseOk(PyList(Append(acc, r.val)), SkipWS(s, r.next) + 1)
    ELSE ParseFail

ParseItems(s, i, acc) == ItemsAfter(s, ParseValue(s, i), acc)

\* after the value r of the member with key k: a comma and the next
\* member, or the end
MemberValue(s, k, r, acc) ==
    IF ~r.ok THEN ParseFail
    ELSE IF At(s, SkipWS(s, r.next), ",")
    THEN ParseMembers(s, SkipWS(s, SkipWS(s, r.next) + 1), SetItem(acc, k.val.v, r.val))
    ELSE IF At(s, SkipWS(s, r.next), "}")
    THEN ParseOk(SetItem(acc, k.val.v, r.val), SkipWS(s, r.next) + 1)
    ELSE ParseFail

\* after the key k of a member: a colon and the value
MemberKey(s, k, acc) ==
    IF ~k.ok \/ ~At(s, SkipWS(s, k.next), ":") THEN ParseFail
    ELSE MemberValue(s, k, ParseValue(s, SkipWS(s, SkipWS(s, k.next) + 1)), acc)

ParseMembers(s, i, acc) ==
    IF ~At(s, i, "\"") THEN ParseFail
    ELSE MemberKey(s, ParseChunks(s, i + 1, << >>), acc)

ParseValue(s, i) ==
    IF i > Len(s) THEN ParseFail
    ELSE IF s[i] = "\"" THEN ParseChunks(s, i + 1, << >>)
    ELSE IF s[i] = "{" THEN
        IF At(s, SkipWS(s, i + 1), "}") THEN ParseOk(PyDict(<< >>), SkipWS(s, i + 1) + 1)
        ELSE ParseMembers(s, SkipWS(s, i + 1), PyDict(<< >>))
    ELSE IF s[i] = "[" THEN
        IF At(s, SkipWS(s, i + 1), "]") THEN ParseOk(PyList(<< >>), SkipWS(s, i + 1) + 1)
        ELSE ParseItems(s, SkipWS(s, i + 1), << >>)
    ELSE IF s[i] \in {"7", "0"} THEN ParseOk(PyNum(s[i]), i + 1)
    ELSE IF s[i] = "null" THEN ParseOk(PyNone, i + 1)
    ELSE ParseFail

\* the whole text must be one value
WholeText(s, r) == IF r.ok /\ SkipWS(s, r.next) = Len(s) + 1 THEN r ELSE ParseFail

\* json.loads(s): ok = FALSE stands for json.JSONDecodeError
json_loads(s) == WholeText(s, ParseValue(s, SkipWS(s, 1)))

---------------------------------------------------------------------------
(* VegasGPTService *)

\* Behaviour of one HTTP exchange: the request raises (transport error), or
\* a response arrives with a status and a body; json_ok says whether
\* response.json() decodes, body is the decoded value.
HttpRaise == [kind |-> "raise", status |-> 0, json_ok |-> FALSE, body |-> PyNone]
HttpResponse(status, json_ok, body) ==
    [kind |-> "response", status |-> status, json_ok |-> json_ok, body |-> body]

AnalysisResult(errors, summary) ==
    PyDict((S("errors") :> PyList(errors)) @@ (S("summary") :> PyStr(summary)))

\* lines 47-51: the line of one log
LogLine(level, timestamp, message) ==
    IF level \in {S("ERROR"), S("SEVERE")}
    THEN S("ERROR_LOG: [") \o Fmt(timestamp) \o S("] ") \o Fmt(message) \o S("\n")
    ELSE S("[") \o Fmt(timestamp) \o S("] [") \o level \o S("] ") \o Fmt(message) \o S("\n")

\* lines 41-51: the text block built from the logs
RECURSIVE FormatLogs(_, _)
FormatLogs(logs, acc) ==
    IF logs = << >> THEN Return(PyStr(acc))
    ELSE IF Head(logs).t # "dict" THEN Raise(S("object has no attribute 'get'"))
    ELSE IF Get(Head(logs), S("level"), PyStr(<< >>)).t # "str"
    THEN Raise(S("object has no attribute 'upper'"))
    ELSE FormatLogs(Tail(logs),
             acc \o LogLine(Upper(Get(Head(logs), S("level"), PyStr(<< >>)).v),
                            Get(Head(logs), S("timestamp"), PyStr(<< >>)),
                            Get(Head(logs), S("message"), PyStr(<< >>))))

\* lines 143 / 161: the test that flags a line of the raw response
IsErrorLine(line) ==
    Contains(line, "ERROR") \/ Contains(line, "Exception") \/ Contains(Lower(line), "error")

\* lines 144-149 / 162-167: the error recorded for a flagged line
LineError(line, now) ==
    PyDict((S("message") :> PyStr(Strip(line)))
        @@ (S("root_cause") :> PyStr(S("Unknown - parsed from unstructured response")))
        @@ (S("severity") :> PyStr(S("Unknown")))
        @@ (S("timestamp") :> PyStr(S(now))))

\* lines 140-149 / 158-167: scan the lines of the raw response
RECURSIVE ScanLines(_, _, _)
ScanLines(lines, now, acc) ==
    IF lines = << >> THEN acc
    ELSE ScanLines(Tail(lines), now,
             IF IsErrorLine(Head(lines)) THEN Append(acc, LineError(Head(lines), now)) ELSE acc)

\* mutant: the end index stops before the closing brace
JsonEnd_BeforeBrace(ai_response) == RFind(ai_response, "}")

\* line 123
JsonEnd(ai_response) == RFind(ai_response, "}") + 1

\* lines 134-136: a missing summary is filled in
BackfillSummary(analysis) ==
    IF S("summary") \notin DOMAIN analysis.v
    THEN SetItem(analysis, S("summary"), PyStr(S("Analysis completed without summary.")))
    ELSE analysis

\* lines 131-136: validate the decoded structure
Backfill(analysis) ==
    BackfillSummary(IF Get(analysis, S("errors"), PyNone).t # "list"
                    THEN SetItem(analysis, S("errors"), PyList(<< >>))
                    ELSE analysis)

\* mutant: a key the decoded object already has is kept
StoreRaw_KeepExisting(analysis, ai_response) ==
    IF S("_raw_response") \in DOMAIN analysis.v THEN analysis
    ELSE SetItem(analysis, S("_raw_response"), PyStr(ai_response))

\* line 177
StoreRaw(analysis, ai_response) == SetItem(analysis, S("_raw_response"), PyStr(ai_response))

\* mutant: a decode failure yields no errors
Decoded_NoFallback(r, ai_response, now) ==
    IF r.ok THEN Backfill(r.val)
    ELSE AnalysisResult(<< >>,
             S("Failed to parse JSON response, extracted errors from raw text."))

\* lines 128-136 / 155-172: the decode succeeded, or JSONDecodeError
Decoded(r, ai_response, now) ==
    IF r.ok THEN Backfill(r.val)
    ELSE AnalysisResult(ScanLines(Split(ai_response, << >>, << >>), now, << >>),
             S("Failed to parse JSON response, extracted errors from raw text."))

\* lines 120-172: the analysis extracted from the raw response text
ExtractAnalysis(ai_response, now) ==
    IF Find(ai_response, "{") >= 0 /\ JsonEnd(ai_response) > Find(ai_response, "{")
    THEN Decoded(json_loads(SubSeq(ai_response, Find(ai_response, "{") + 1,
                                   JsonEnd(ai_response))),
                 ai_response, now)
    ELSE AnalysisResult(ScanLines(Split(ai_response, << >>, << >>), now, << >>),
             S("Parsed unstructured response for errors."))

\* The outcome of a client call: did it raise, the value it returned, the
\* number of HTTP requests it sent, and whether it decoded a response body.
Outcome(raised, exc, val, requests, parsed) ==
    [raised |-> raised, exc |-> exc, val |-> val, requests |-> requests, parsed |-> parsed]

\* mutant: only None counts as no logs
NoLogs_NoneOnly(logs) == logs = PyNone

\* line 29: not logs
NoLogs(logs) == ~Truthy(logs)

\* mutant: only server errors count as failures
IsFailure_ServerOnly(status) == status >= 500

\* line 108: response.status_code != 200
IsFailure(status) == status # 200

\* lines 106-179: the request and what follows the response
Exchange(http, now) ==
    IF http.kind = "raise" THEN Outcome(TRUE, S("ConnectionError"), PyNone, 1, FALSE)
    ELSE IF IsFailure(http.status)
    THEN Outcome(FALSE, << >>,
             AnalysisResult(<< >>, S("Error from AI service: ") \o S(Digits(http.status))),
             1, FALSE)
    ELSE IF ~http.json_ok THEN Outcome(TRUE, S("JSONDecodeError"), PyNone, 1, TRUE)
    ELSE IF http.body.t # "dict"
    THEN Outcome(TRUE, S("object has no attribute 'get'"), PyNone, 1, TRUE)
    ELSE IF Get(http.body, S("ai_response"), PyStr(<< >>)).t # "str"
    THEN Outcome(TRUE, S("object is not subscriptable"), PyNone, 1, TRUE)
    ELSE Outcome(FALSE, << >>,
             StoreRaw(ExtractAnalysis(Get(http.body, S("ai_response"), PyStr(<< >>)).v, now),
                      Get(http.body, S("ai_response"), PyStr(<< >>)).v),
             1, TRUE)

\* lines 41-179: the prompt is built, then the request is sent
Prompted(text, http, now) ==
    IF text.raised THEN Outcome(TRUE, text.exc, PyNone, 0, FALSE) ELSE Exchange(http, now)

\* lines 29-179: the body of the try block
AnalyzeTry(logs, http, now) ==
    IF NoLogs(logs)
    THEN Outcome(FALSE, << >>, AnalysisResult(<< >>, S("No logs available to analyze.")), 0, FALSE)
    ELSE IF logs.t # "list" THEN Outcome(TRUE, S("object is not iterable"), PyNone, 0, FALSE)
    ELSE Prompted(FormatLogs(logs.v, << >>), http, now)

\* mutant: the exception is not handled
AnalyzeExcept_Unhandled(r) == r

\* lines 181-186: the handler of the outer try
AnalyzeExcept(r) ==
    IF r.raised
    THEN Outcome(FALSE, << >>,
             AnalysisResult(<< >>, S("Error during analysis: ") \o r.exc), r.requests, r.parsed)
    ELSE r

\* VegasGPTService.analyze_logs
analyze_logs(configured, logs, http, now) ==
    IF ~configured
    THEN Outcome(FALSE, << >>,
             AnalysisResult(<< >>, S("Error: AI service not configured.")), 0, FALSE)
    ELSE AnalyzeExcept(AnalyzeTry(logs, http, now))

\* response.text: the body as sent, kept opaque
BodyText(http) == IF http.json_ok THEN S("<json>") ELSE S("<html>")

\* line 224: 'ai_response' in response_json, which tests the keys of a
\* dict, the items of a list and the substrings of a str, and raises on a
\* value that is no container
HasEnvelopeKey(body) ==
    CASE body.t = "dict" -> S("ai_response") \in DOMAIN body.v
      [] body.t = "list" -> \E i \in 1..Len(body.v) : body.v[i] = PyStr(S("ai_response"))
      [] body.t = "str" -> \E i \in 1..Len(body.v) : body.v[i] = "ai_response"
      [] OTHER -> FALSE

\* lines 222-229: what follows the response to the test prompt
ProbeAnswered(http) ==
    IF http.status # 200
    THEN Outcome(FALSE, << >>,
             PyTuple(<<PyBool(FALSE),
                       PyStr(S("Failed to connect: ") \o S(Digits(http.status)) \o S(" - ")
                             \o BodyText(http))>>),
             1, FALSE)
    ELSE IF ~http.json_ok THEN Outcome(TRUE, S("JSONDecodeError"), PyNone, 1, TRUE)
    ELSE IF http.body.t \notin {"dict", "list", "str"}
    THEN Outcome(TRUE, S("argument is not iterable"), PyNone, 1, TRUE)
    ELSE IF HasEnvelopeKey(http.body)
    THEN Outcome(FALSE, << >>,
             PyTuple(<<PyBool(TRUE), PyStr(S("Successfully connected to Vegas GPT service"))>>),
             1, TRUE)
    ELSE Outcome(FALSE, << >>,
             PyTuple(<<PyBool(FALSE),
                       PyStr(S("Connected but received unexpected response format: ")
                             \o Fmt(http.body))>>),
             1, TRUE)

\* lines 231-233: the handler of the probe
ProbeExcept(r) ==
    IF r.raised
    THEN Outcome(FALSE, << >>,
             PyTuple(<<PyBool(FALSE),
                       PyStr(S("Error connecting to Vegas GPT service: ") \o r.exc)>>),
             r.requests, r.parsed)
    ELSE r

\* VegasGPTService.test_connection
vegas_test_connection(configured, http) ==
    IF ~configured
    THEN Outcome(FALSE, << >>,
             PyTuple(<<PyBool(FALSE),
                       PyStr(S("Vegas GPT Service is not configured properly - missing API token"))>>),
             0, FALSE)
    ELSE ProbeExcept(IF http.kind = "raise"
                     THEN Outcome(TRUE, S("ConnectionError"), PyNone, 1, FALSE)
                     ELSE ProbeAnswered(http))

---------------------------------------------------------------------------
(* ELKService *)

\* ELKService.is_configured, over the configuration of the search client:
\* settings absent ("unset"), present ("ok"), or present with credentials
\* that are not ASCII ("non_ascii")
elk_is_configured(cfg) == cfg # "unset"

\* mutant: the last synonym present wins
Get3_LastWins(source, k1, k2, k3) ==
    Get(source, S(k3), Get(source, S(k2), Get(source, S(k1), PyStr(<< >>))))

\* source.get(k1, source.get(k2, source.get(k3, '')))
Get3(source, k1, k2, k3) ==
    Get(source, S(k1), Get(source, S(k2), Get(source, S(k3), PyStr(<< >>))))

\* lines 241-244: the optional passthrough fields
CopyIfPresent(entry, source, from, to) ==
    IF S(from) \in DOMAIN source.v THEN entry @@ (S(to) :> source.v[S(from)]) ELSE entry

\* lines 232-244: one normalized log entry
LogEntry(source) ==
    PyDict(CopyIfPresent(CopyIfPresent(
        (S("timestamp") :> Get3(source, "timestamp", "@timestamp", "time"))
        @@ (S("level") :> Get3(source, "level", "log_level", "severity"))
        @@ (S("message") :> Get3(source, "message", "msg", "log_message"))
        @@ (S("service") :> Get3(source, "service", "service_name", "application"))
        @@ (S("transaction_id") :> Get3(source, "transaction_id", "txid", "request_id")),
        source, "host", "host"), source, "error", "error_details"))

\* lines 219-246: the loop over the hits
RECURSIVE NormalizeHits(_, _)
NormalizeHits(hits, acc) ==
    IF hits = << >> THEN Return(PyList(acc))
    ELSE IF Head(hits).t # "dict" THEN Raise(S("object has no attribute 'get'"))
    ELSE IF Get(Head(hits), S("_source"), PyDict(<< >>)).t # "dict"
    THEN Raise(S("object has no attribute 'get'"))
    ELSE NormalizeHits(Tail(hits),
             Append(acc, LogEntry(Get(Head(hits), S("_source"), PyDict(<< >>)))))

\* lines 251-254: the tally of levels raises on a level that is not a str
LevelTallyRaises(logs) ==
    \E i \in 1..Len(logs) : Get(logs[i], S("level"), PyStr(S("unknown"))).t # "str"

\* lines 209-216: the sample of the first hit
SampleHitRaises(hits) ==
    \/ hits[1].t # "dict"
    \/ S("_source") \in DOMAIN hits[1].v /\ hits[1].v[S("_source")].t # "dict"

\* mutant: the list is returned without the tally of its levels
Tallied_NoTally(n) == n

\* lines 248-258: the tally of the levels, and the return
Tallied(n) ==
    IF n.raised THEN n
    ELSE IF LevelTallyRaises(n.val.v) THEN Raise(S("object has no attribute 'upper'"))
    ELSE n

\* lines 204-258
FromHits(hits) ==
    IF ~Truthy(hits) THEN Return(PyList(<< >>))
    ELSE IF hits.t # "list" THEN Raise(S("object is not subscriptable"))
    ELSE IF SampleHitRaises(hits.v) THEN Raise(S("sample hit"))
    ELSE Tallied(NormalizeHits(hits.v, << >>))

\* lines 191-258: from the decoded body to the returned list
ExtractLogs(http) ==
    IF ~http.json_ok THEN Raise(S("JSONDecodeError"))
    ELSE IF http.body.t # "dict" THEN Raise(S("object has no attribute 'get'"))
    ELSE IF Get(http.body, S("hits"), PyDict(<< >>)).t # "dict"
    THEN Raise(S("object has no attribute 'get'"))
    ELSE FromHits(Get(Get(http.body, S("hits"), PyDict(<< >>)), S("hits"), PyList(<< >>)))

\* lines 190-258: the outcome of processing a 200 response
Processed(r) == Outcome(r.raised, r.exc, r.val, 1, TRUE)

\* lines 104-258: the body of the try block
RetrieveTry(cfg, http) ==
    IF cfg = "non_ascii" THEN Outcome(TRUE, S("UnicodeEncodeError"), PyNone, 0, FALSE)
    ELSE IF http.kind = "raise" THEN Outcome(TRUE, S("ConnectionError"), PyNone, 1, FALSE)
    ELSE IF http.status # 200 THEN Outcome(FALSE, << >>, PyNone, 1, FALSE)
    ELSE Processed(ExtractLogs(http))

\* mutant: the handlers return an empty list
RetrieveExcept_EmptyList(r) ==
    IF r.raised THEN Outcome(FALSE, << >>, PyList(<< >>), r.requests, r.parsed) ELSE r

\* lines 260-267: both handlers return None
RetrieveExcept(r) ==
    IF r.raised THEN Outcome(FALSE, << >>, PyNone, r.requests, r.parsed) ELSE r

\* mutant: the request is sent whatever the configuration
retrieve_logs_Unguarded(cfg, http) == RetrieveExcept(RetrieveTry(cfg, http))

\* ELKService.retrieve_logs
retrieve_logs(cfg, http) ==
    IF ~elk_is_configured(cfg) THEN Outcome(FALSE, << >>, PyNone, 0, FALSE)
    ELSE RetrieveExcept(RetrieveTry(cfg, http))


\* the pair returned by a test_connection, with the requests it sent
Probed(ok, message, requests) ==
    Outcome(FALSE, << >>, PyTuple(<<PyBool(ok), PyStr(message)>>), requests, FALSE)

\* lines 46-96: the index check, then the cluster health check
ProbeTry(cfg, head, health) ==
    IF cfg = "non_ascii"
    THEN Probed(FALSE, S("Error connecting to ELK service: ") \o S("UnicodeEncodeError"), 0)
    ELSE IF head.kind = "raise"
    THEN Probed(FALSE, S("Error connecting to ELK service: ") \o S("ConnectionError"), 1)
    ELSE IF head.status \in {200, 204}
    THEN Probed(TRUE, S("Successfully connected to ELK index: ") \o S("logs-*"), 1)
    ELSE IF health.kind = "raise"
    THEN Probed(FALSE, S("Error connecting to ELK service: ") \o S("ConnectionError"), 2)
    ELSE IF health.status # 200
    THEN Probed(FALSE, S("Failed to connect to ELK: ") \o S(Digits(health.status))
                       \o S(" - ") \o BodyText(health), 2)
    ELSE IF ~health.json_ok
    THEN Probed(FALSE, S("Error connecting to ELK service: ") \o S("JSONDecodeError"), 2)
    ELSE IF health.body.t # "dict"
    THEN Probed(FALSE, S("Error connecting to ELK service: ")
                       \o S("object has no attribute 'get'"), 2)
    ELSE Probed(TRUE, S("Successfully connected to ELK cluster '")
                      \o Fmt(Get(health.body, S("cluster_name"), PyStr(S("unknown"))))
                      \o S("' (status: ")
                      \o Fmt(Get(health.body, S("status"), PyStr(S("unknown")))) \o S(")"), 2)

\* ELKService.test_connection
elk_test_connection(cfg, head, health) ==
    IF ~elk_is_configured(cfg)
    THEN Probed(FALSE, S("ELK Service is not configured properly"), 0)
    ELSE ProbeTry(cfg, head, health)

---------------------------------------------------------------------------
(* SynaptService *)

\* Behaviour of the database during one call, a record db: whether
\* psycopg2.connect succeeds (connect_ok), the rows of the solutions table
\* in the order a scan visits them (catalogue), and the errors whose query
\* raises (fails).  A text is matched one chunk at a time: a chunk stands
\* for a character.
\* The answer to the query issued for the i-th error is a record
\* [kind, row]: the query raises ("raise"), fetchone() returns None
\* ("none"), or it returns a row ("row").
\* self.conn is "none" (no connection object), "open" or "closed".

\* line 130: the length of the prefix of the message that is searched for
PrefixLen == 50

\* line 130: f"%{error_message[:50]}%"
Pattern(error_message) ==
    <<"%">>
    \o (IF error_message.t = "str"
        THEN SubSeq(error_message.v, 1,
                    IF Len(error_message.v) < PrefixLen THEN Len(error_message.v)
                    ELSE PrefixLen)
        ELSE Fmt(error_message))
    \o <<"%">>

\* line 123: the position k of a LIKE pattern is quoted when an odd number
\* of backslashes stands right before it
Quoted(pattern, k) ==
    Cardinality({j \in 1..(k - 1) : \A m \in j..(k - 1) : pattern[m] = "\\"}) % 2 = 1

\* line 123: the positions a..b of the pattern that stand for one character
\* of the text (every position but a quoting backslash)
Toks(pattern, a, b) ==
    LET Keep(k) == Quoted(pattern, k) \/ pattern[k] # "\\"
    IN SelectSeq([i \in 1..(b - a + 1) |-> a + i - 1], Keep)

\* line 123: the wildcard-free part toks of the pattern matches the text
\* right after offset o, where an unquoted _ stands for any one character
MatchAt(text, pattern, toks, o) ==
    /\ o + Len(toks) <= Len(text)
    /\ \A n \in 1..Len(toks) :
           \/ pattern[toks[n]] = "_" /\ ~Quoted(pattern, toks[n])
           \/ text[o + n] = pattern[toks[n]]

\* line 123: the parts s.. of the pattern match the text from offset o on;
\* each part but the last goes at its leftmost place, the last at the end
RECURSIVE LikeFrom(_, _, _, _, _)
LikeFrom(text, pattern, segs, s, o) ==
    IF s = Len(segs)
    THEN /\ Len(text) - Len(segs[s]) >= o
         /\ MatchAt(text, pattern, segs[s], Len(text) - Len(segs[s]))
    ELSE /\ \E q \in o..Len(text) : MatchAt(text, pattern, segs[s], q)
         /\ LikeFrom(text, pattern, segs, s + 1,
                     Len(segs[s]) + (CHOOSE q \in o..Len(text) :
                         /\ MatchAt(text, pattern, segs[s], q)
                         /\ \A r \in o..(q - 1) : ~MatchAt(text, pattern, segs[s], r)))

\* line 123: the parts of the pattern between the unquoted % at cuts
Segs(pattern, cuts) ==
    [s \in 1..(Len(cuts) + 1) |->
        Toks(pattern, IF s = 1 THEN 1 ELSE cuts[s - 1] + 1,
                      IF s = Len(cuts) + 1 THEN Len(pattern) ELSE cuts[s] - 1)]

\* line 123: text LIKE pattern, where % matches any sequence of
\* characters, _ any one character, and a backslash quotes the next one
Like(text, pattern) ==
    LET Cut(k) == pattern[k] = "%" /\ ~Quoted(pattern, k)
        segs == Segs(pattern, SelectSeq([k \in 1..Len(pattern) |-> k], Cut))
    IN IF Len(segs) = 1
       THEN Len(segs[1]) = Len(text) /\ MatchAt(text, pattern, segs[1], 0)
       ELSE MatchAt(text, pattern, segs[1], 0)
            /\ LikeFrom(text, pattern, segs, 2, Len(segs[1]))

\* line 123: error_message ILIKE pattern; NULL matches nothing
Ilike(row, pattern) ==
    /\ row.v[S("error_message")].t = "str"
    /\ Like(Lower(row.v[S("error_message")].v), Lower(pattern))

\* lines 124-125: the rank of a row under ORDER BY solution_confidence
\* DESC, where NULL sorts before every number
ConfidenceRank(row) ==
    CASE row.v[S("confidence")] = PyNone -> 4
      [] row.v[S("confidence")] = PyNum("0.9") -> 3
      [] row.v[S("confidence")] = PyNum("0.5") -> 2
      [] row.v[S("confidence")] = PyNum("0") -> 1
      [] OTHER -> 0

\* lines 124-131: LIMIT 1 and fetchone() over the matching rows m
Fetch(catalogue, m) ==
    IF m = {} THEN [kind |-> "none", row |-> PyNone]
    ELSE [kind |-> "row",
          row |-> catalogue[CHOOSE i \in m : \A j \in m :
                      \/ ConfidenceRank(catalogue[j]) < ConfidenceRank(catalogue[i])
                      \/ ConfidenceRank(catalogue[j]) = ConfidenceRank(catalogue[i]) /\ i <= j]]

\* lines 110-131: the answer to the query for the i-th error
Answer(db, i, error_message) ==
    IF i \in db.fails THEN [kind |-> "raise", row |-> PyNone]
    ELSE Fetch(db.catalogue,
               {k \in 1..Len(db.catalogue) : Ilike(db.catalogue[k], Pattern(error_message))})

\* mutant: a connection is opened on every call
get_connection_AlwaysConnect(configured, conn, connect_ok) ==
    IF ~configured THEN [ret |-> "none", conn |-> conn, connects |-> 0]
    ELSE IF connect_ok THEN [ret |-> "open", conn |-> "open", connects |-> 1]
    ELSE [ret |-> "none", conn |-> conn, connects |-> 1]

\* lines 28-46: the connection returned (None as "none") and self.conn
get_connection(configured, conn, connect_ok) ==
    IF ~configured THEN [ret |-> "none", conn |-> conn, connects |-> 0]
    ELSE IF conn \in {"none", "closed"}
    THEN IF connect_ok THEN [ret |-> "open", conn |-> "open", connects |-> 1]
         ELSE [ret |-> "none", conn |-> conn, connects |-> 1]
    ELSE [ret |-> conn, conn |-> conn, connects |-> 0]

\* line 146: the non-empty stripped lines of a newline-delimited string
RECURSIVE StripLines(_, _)
StripLines(lines, acc) ==
    IF lines = << >> THEN acc
    ELSE StripLines(Tail(lines),
             IF Strip(Head(lines)) # << >> THEN Append(acc, PyStr(Strip(Head(lines)))) ELSE acc)

\* lines 140-144: a string that starts with [ is decoded, or kept whole
DecodedSteps(r, st) == IF r.ok THEN r.val ELSE PyList(<<st>>)

\* lines 135-148: the steps of a value of solution_steps
NormalizeSteps(st) ==
    IF ~Truthy(st) THEN PyList(<< >>)
    ELSE IF st.t = "str"
    THEN IF Head(st.v) = "[" THEN DecodedSteps(json_loads(st.v), st)
         ELSE PyList(StripLines(Split(st.v, << >>, << >>), << >>))
    ELSE IF st.t = "list" THEN st
    ELSE PyList(<< >>)

\* mutant: the message is echoed as it was sent to the query
Recommendation_Truncated(error, solution, confidence, steps) ==
    (S("error") :> IF error.t = "str" /\ Len(error.v) > PrefixLen
                   THEN PyStr(SubSeq(error.v, 1, PrefixLen)) ELSE error)
        @@ (S("solution") :> solution)
        @@ (S("confidence") :> confidence) @@ (S("steps") :> steps)

Recommendation(error, solution, confidence, steps) ==
    (S("error") :> error) @@ (S("solution") :> solution)
        @@ (S("confidence") :> confidence) @@ (S("steps") :> steps)

\* lines 157-164 / 166-173: the entry without a solution
Placeholder(error_message, solution) ==
    PyDict(Recommendation(error_message, PyStr(solution), PyNum("0"), PyList(<< >>)))

\* lines 150-156: the recommendation built from a row
FromRow(error_message, result, confidence) ==
    IF confidence.t # "num"
    THEN Placeholder(error_message,
             S("Error retrieving solution: ") \o S("float() argument must be a number"))
    ELSE PyDict(Recommendation(error_message,
                    Get(result, S("solution"), PyStr(S("No specific solution found."))),
                    confidence, NormalizeSteps(Get(result, S("solution_steps"), PyNone)))
                @@ (S("id") :> Get(result, S("id"), PyNone)))

\* mutant: an error without a matching row gets the default solution text
Lookup_NoRowAsDefault(error_message, answer) ==
    IF error_message.t \notin {"str", "list"}
    THEN Placeholder(error_message,
             S("Error retrieving solution: ") \o S("object is not subscriptable"))
    ELSE IF answer.kind = "raise"
    THEN Placeholder(error_message, S("Error retrieving solution: ") \o S("OperationalError"))
    ELSE IF answer.kind = "none" \/ ~Truthy(answer.row)
    THEN Placeholder(error_message, S("No specific solution found."))
    ELSE FromRow(error_message, answer.row, Get(answer.row, S("confidence"), PyNum("0")))

\* lines 108-173: the recommendation for one error with a truthy message
Lookup(error_message, answer) ==
    IF error_message.t \notin {"str", "list"}
    THEN Placeholder(error_message,
             S("Error retrieving solution: ") \o S("object is not subscriptable"))
    ELSE IF answer.kind = "raise"
    THEN Placeholder(error_message, S("Error retrieving solution: ") \o S("OperationalError"))
    ELSE IF answer.kind = "none" \/ ~Truthy(answer.row)
    THEN Placeholder(error_message, S("No solution found in the knowledge base."))
    ELSE FromRow(error_message, answer.row, Get(answer.row, S("confidence"), PyNum("0")))

\* mutant: a failing lookup ends the loop
RECURSIVE FindLoop_AbortOnFailure(_, _, _, _, _)
FindLoop_AbortOnFailure(errors, db, i, acc, queries) ==
    IF i > Len(errors) THEN [raised |-> FALSE, recs |-> acc, queries |-> queries]
    ELSE IF errors[i].t # "dict" THEN [raised |-> TRUE, recs |-> acc, queries |-> queries]
    ELSE IF ~Truthy(Get(errors[i], S("message"), PyStr(<< >>)))
    THEN FindLoop_AbortOnFailure(errors, db, i + 1, acc, queries)
    ELSE IF i \in db.fails
    THEN [raised |-> FALSE,
          recs |-> Append(acc, Lookup(Get(errors[i], S("message"), PyStr(<< >>)),
                                      Answer(db, i, Get(errors[i], S("message"), PyStr(<< >>))))),
          queries |-> queries + 1]
    ELSE FindLoop_AbortOnFailure(errors, db, i + 1,
             Append(acc, Lookup(Get(errors[i], S("message"), PyStr(<< >>)),
                                Answer(db, i, Get(errors[i], S("message"), PyStr(<< >>))))),
             queries + 1)

\* lines 102-173: the loop over the errors; a query is issued (line 130)
\* unless the message is falsy or slicing it raises first
RECURSIVE FindLoop(_, _, _, _, _)
FindLoop(errors, db, i, acc, queries) ==
    IF i > Len(errors) THEN [raised |-> FALSE, recs |-> acc, queries |-> queries]
    ELSE IF errors[i].t # "dict" THEN [raised |-> TRUE, recs |-> acc, queries |-> queries]
    ELSE IF ~Truthy(Get(errors[i], S("message"), PyStr(<< >>)))
    THEN FindLoop(errors, db, i + 1, acc, queries)
    ELSE FindLoop(errors, db, i + 1,
             Append(acc, Lookup(Get(errors[i], S("message"), PyStr(<< >>)),
                                Answer(db, i, Get(errors[i], S("message"), PyStr(<< >>))))),
             queries + IF Get(errors[i], S("message"), PyStr(<< >>)).t \in {"str", "list"}
                       THEN 1 ELSE 0)

SolutionResponse(recommendations, summary) ==
    PyDict((S("recommendations") :> PyList(recommendations)) @@ (S("summary") :> PyStr(summary)))

\* line 178
SolutionSummary(recs) ==
    S("Found ")
    \o S(Digits(Cardinality({i \in 1..Len(recs) :
                    /\ Get(recs[i], S("confidence"), PyNum("0")).t = "num"
                    /\ Get(recs[i], S("confidence"), PyNum("0")).v # "0"})))
    \o S(" solution(s) for ") \o S(Digits(Len(recs))) \o S(" identified errors.")

FindResult(val, c, queries) ==
    [val |-> val, conn |-> c.conn, connects |-> c.connects, queries |-> queries]

\* mutant: the recommendations computed before the exception are returned
Looped_KeepsPartial(f, c) ==
    FindResult(SolutionResponse(f.recs, SolutionSummary(f.recs)), c, f.queries)

\* lines 175-188: the response built after the loop, or by the outer handler
Looped(f, c) ==
    IF f.raised
    THEN FindResult(SolutionResponse(<< >>, S("Error retrieving solutions: ")
                                            \o S("object has no attribute 'get'")),
                    c, f.queries)
    ELSE FindResult(SolutionResponse(f.recs, SolutionSummary(f.recs)), c, f.queries)

\* lines 92-188: with the connection obtained
Connected(c, errors, db) ==
    IF c.ret = "none"
    THEN FindResult(SolutionResponse(<< >>, S("Could not connect to solution database.")), c, 0)
    ELSE IF errors.t # "list"
    THEN FindResult(SolutionResponse(<< >>, S("Error retrieving solutions: ")
                                            \o S("object is not iterable")), c, 0)
    ELSE Looped(FindLoop(errors.v, db, 1, << >>, 0), c)

\* mutant: the connection is obtained before the errors are looked at
find_solutions_ConnectFirst(configured, conn, errors, db) ==
    IF ~Truthy(errors)
    THEN [val |-> SolutionResponse(<< >>, S("No errors to find solutions for.")),
          conn |-> get_connection(configured, conn, db.connect_ok).conn,
          connects |-> get_connection(configured, conn, db.connect_ok).connects,
          queries |-> 0]
    ELSE Connected(get_connection(configured, conn, db.connect_ok), errors, db)

\* SynaptService.find_solutions: the response, self.conn afterwards, and
\* the numbers of connection attempts and of queries issued
find_solutions(configured, conn, errors, db) ==
    IF ~Truthy(errors)
    THEN [val |-> SolutionResponse(<< >>, S("No errors to find solutions for.")),
          conn |-> conn, connects |-> 0, queries |-> 0]
    ELSE Connected(get_connection(configured, conn, db.connect_ok), errors, db)

\* SynaptService.test_connection: the pair, self.conn afterwards, and the
\* numbers of connection attempts and of queries issued, given the answer
\* to the version query
synapt_test_connection(configured, conn, connect_ok, answer) ==
    IF ~configured
    THEN [val |-> PyTuple(<<PyBool(FALSE),
                            PyStr(S("Synapt database is not configured properly"))>>),
          conn |-> conn, connects |-> 0, queries |-> 0]
    ELSE IF get_connection(configured, conn, connect_ok).ret = "none"
    THEN FindResult(PyTuple(<<PyBool(FALSE),
                              PyStr(S("Could not establish database connection"))>>),
                    get_connection(configured, conn, connect_ok), 0)
    ELSE IF answer.kind = "raise"
    THEN FindResult(PyTuple(<<PyBool(FALSE),
                              PyStr(S("Error connecting to Synapt database: ")
                                    \o S("OperationalError"))>>),
                    get_connection(configured, conn, connect_ok), 1)
    ELSE IF answer.body.t # "list"
    THEN FindResult(PyTuple(<<PyBool(FALSE),
                              PyStr(S("Error connecting to Synapt database: ")
                                    \o S("object is not subscriptable"))>>),
                    get_connection(configured, conn, connect_ok), 1)
    ELSE FindResult(PyTuple(<<PyBool(TRUE),
                              PyStr(S("Successfully connected to PostgreSQL: ")
                                    \o Fmt(answer.body.v[1]))>>),
                    get_connection(configured, conn, connect_ok), 1)

\* SynaptService.close_connection: self.conn afterwards
close_connection(conn) == IF conn = "open" THEN "none" ELSE conn

---------------------------------------------------------------------------
(* Inputs: the form, and what the three backends may answer *)

MaxDate == 2
MaxTime == 2
MaxErrors == 2

\* the submitted form: dates and times of day are ordinals
Forms ==
    [work_order : {<< >>, S("WO-123")}, task_name : {<< >>, S("ingest")},
     start_date : 1..MaxDate, start_time : 1..MaxTime,
     end_date : 1..MaxDate, end_time : 1..MaxTime]

Q == "\""

\* the backend's serialization of a value as JSON text
RECURSIVE Serialize(_)
RECURSIVE SerializeItems(_)
RECURSIVE SerializeMembers(_, _)

SerializeItems(l) ==
    IF l = << >> THEN << >>
    ELSE IF Len(l) = 1 THEN Serialize(l[1])
    ELSE Serialize(l[1]) \o <<",", " ">> \o SerializeItems(Tail(l))

SerializeMembers(m, keys) ==
    IF keys = {} THEN << >>
    ELSE <<Q>> \o (CHOOSE x \in keys : TRUE) \o <<Q, ":", " ">>
         \o Serialize(m[CHOOSE x \in keys : TRUE])
         \o IF keys \ {CHOOSE x \in keys : TRUE} = {} THEN << >>
            ELSE <<",", "\n">> \o SerializeMembers(m, keys \ {CHOOSE x \in keys : TRUE})

Serialize(x) ==
    CASE x.t = "str" -> <<Q>> \o x.v \o <<Q>>
      [] x.t = "num" -> <<x.v>>
      [] x.t = "none" -> <<"null">>
      [] x.t = "list" -> <<"[">> \o SerializeItems(x.v) \o <<"]">>
      [] OTHER -> <<"{">> \o SerializeMembers(x.v, DOMAIN x.v) \o <<"}">>

\* lists of hits of the search backend
HitLists ==
    LET HitInfo ==
            Dict(<< <<"_source", Dict(<< <<"timestamp", PyStr(S("t1"))>>,
                                         <<"level", PyStr(S("info"))>>,
                                         <<"message", PyStr(S("started"))>>,
                                         <<"service", PyStr(S("svc"))>> >>)>> >>)
        HitError ==
            Dict(<< <<"_source", Dict(<< <<"@timestamp", PyStr(S("t2"))>>,
                                         <<"log_level", PyStr(S("ERROR"))>>,
                                         <<"msg", PyStr(<<"Connection", " ", "timeout">>)>>,
                                         <<"host", PyStr(S("h1"))>>,
                                         <<"error", PyStr(S("stack"))>> >>)>> >>)
        HitNoSource == PyDict(<< >>)
        HitNumLevel ==
            Dict(<< <<"_source", Dict(<< <<"level", PyNum("7")>>,
                                         <<"message", PyStr(S("x"))>> >>)>> >>)
        HitBadSource == Dict(<< <<"_source", PyNone>> >>)
        HitNotMapping == PyNum("7")
    IN {<< >>, <<HitInfo>>, <<HitInfo, HitError>>, <<HitNoSource>>, <<HitInfo, HitNumLevel>>,
        <<HitNumLevel>>, <<HitBadSource>>, <<HitInfo, HitNotMapping>>, <<HitNotMapping>>}

SearchBody(hits) ==
    Dict(<< <<"hits", Dict(<< <<"total", PyNum("7")>>, <<"hits", PyList(hits)>> >>)>> >>)

StatusCodes == {200, 404, 503}

ElkBehaviours ==
    {HttpRaise}
    \cup {HttpResponse(st, FALSE, PyNone) : st \in StatusCodes}
    \cup {HttpResponse(200, TRUE, b) :
            b \in {PyList(<< >>), PyDict(<< >>), Dict(<< <<"hits", PyList(<< >>)>> >>),
                   Dict(<< <<"hits", Dict(<< <<"hits", PyNum("7")>> >>)>> >>)}}
    \cup {HttpResponse(200, TRUE, SearchBody(h)) : h \in HitLists}

\* objects the generative backend may embed in its answer
EmbeddedObjects ==
    LET ErrBoom == Dict(<< <<"message", PyStr(<<"boom", " ", "ERROR">>)>>,
                           <<"root_cause", PyStr(S("disk"))>>,
                           <<"severity", PyStr(S("High"))>> >>)
        ErrNoMessage == Dict(<< <<"severity", PyStr(S("Low"))>> >>)
    IN {Dict(<< <<"errors", PyList(<<ErrBoom>>)>>, <<"summary", PyStr(S("one"))>> >>),
        Dict(<< <<"errors", PyList(<< >>)>>, <<"summary", PyStr(S("fine"))>> >>),
        Dict(<< <<"summary", PyStr(S("fine"))>> >>),
        Dict(<< <<"errors", PyStr(S("none"))>> >>),
        Dict(<< <<"errors", PyList(<< >>)>>, <<"summary", PyNone>>, <<"extra", PyNum("7")>> >>),
        Dict(<< <<"errors", PyList(<<ErrBoom>>)>>, <<"summary", PyStr(S("one"))>>,
                <<"_raw_response", PyStr(S("x"))>> >>),
        PyDict(<< >>),
        Dict(<< <<"errors", PyList(<<ErrNoMessage, ErrBoom>>)>>,
                <<"summary", PyStr(S("two"))>> >>),
        Dict(<< <<"errors", PyList(<<ErrBoom, PyNum("7")>>)>>,
                <<"summary", PyStr(S("two"))>> >>)}

Prefixes == {<< >>, <<"Here", " ", "is", ":", "\n">>}
Suffixes == {<< >>, <<"\n", "Done">>}

\* answers holding exactly one JSON object between the first { and the last }
CleanTexts == {p \o Serialize(o) \o s : p \in Prefixes, o \in EmbeddedObjects, s \in Suffixes}

\* the answers: the clean ones, and ones with no object, a broken one, or
\* more than one
AITexts ==
    CleanTexts
    \cup {<< >>,
          <<"no", " ", "ERROR", " ", "here", "\n", "ok", "\n", " ", "Exception", " ">>,
          <<"an", " ", "exception", "\n", "EXCEPTION", "\n", "Error", " ", "x">>,
          <<"{", "oops", " ", "error", "}">>,
          <<"}", " ", "{">>,
          <<"{", "x", "}", " ">> \o Serialize(Dict(<< <<"summary", PyStr(S("fine"))>> >>)),
          <<"{", Q, "errors", Q, ":", "[", "]", "\n", "ERROR", "\n", "}", "}">>}

AIBehaviours ==
    {HttpRaise}
    \cup {HttpResponse(st, FALSE, PyNone) : st \in StatusCodes}
    \cup {HttpResponse(404, TRUE,
              Dict(<< <<"ai_response", PyStr(Serialize(PyDict(<< >>)))>> >>))}
    \cup {HttpResponse(200, TRUE, b) :
            b \in {PyList(<< >>), PyDict(<< >>), Dict(<< <<"ai_response", PyNone>> >>)}}
    \cup {HttpResponse(200, TRUE, Dict(<< <<"ai_response", PyStr(t)>> >>)) : t \in AITexts}

\* datetime.now().isoformat() at the time of the call
Clock == {"12:00", "12:01"}

\* inputs of a direct call of analyze_logs: no logs, the lists the search
\* client builds from the hits, and a list whose item is no mapping
AnalyzeInputs ==
    {PyList(<< >>), PyNone, PyList(<<PyNum("7")>>)}
    \cup {NormalizeHits(h, << >>).val :
            h \in {x \in HitLists : x # << >> /\ ~NormalizeHits(x, << >>).raised}}

\* lines 113-119: a row of the solutions table as the cursor returns it
Row(id, error_message, solution, confidence, solution_steps) ==
    Dict(<< <<"id", PyNum(id)>>, <<"error_message", PyStr(error_message)>>,
            <<"solution", PyStr(solution)>>, <<"confidence", confidence>>,
            <<"solution_steps", solution_steps>>, <<"severity", PyStr(S("High"))>> >>)

\* the tables the pipeline may meet
Catalogues ==
    LET RowFix == Row("7", <<"boom", " ", "error">>, S("restart"), PyNum("0.9"),
                      PyStr(<<"stop", "\n", " ", "start", " ", "\n">>))
        RowZero == Row("0", <<"x", "BOOM", " ", "ERROR", "y">>, S("wait"), PyNum("0"),
                       PyStr(<<"[", Q, "wait", Q, "]">>))
        RowNull == Row("3", <<"Error", " ", "x">>, S("retry"), PyNone, PyNone)
    IN {<< >>, <<RowFix>>, <<RowZero>>, <<RowFix, RowZero>>, <<RowZero, RowFix>>, <<RowNull>>}

DbBehaviours ==
    [connect_ok : BOOLEAN, catalogue : Catalogues, fails : SUBSET (1..MaxErrors)]

---------------------------------------------------------------------------
(* app.py: one form submission *)

VARIABLES
    pc,              \* where the script is: idle, search, analysis, remediation, done, crashed
    form,            \* the submitted form
    elk_cfg,         \* configuration of the search client
    ai_cfg,          \* VegasGPTService.is_configured()
    synapt_cfg,      \* SynaptService.is_configured()
    conn,            \* SynaptService.conn
    search_args,     \* the arguments of the retrieve_logs call
    logs,            \* app.py: logs
    error_analysis,  \* app.py: error_analysis
    solution,        \* app.py: solution
    elk_http,        \* what the search backend did in this submission
    ai_http,         \* what the generative backend did in this submission
    ai_in,           \* the argument of the analyze_logs call
    ai_now,          \* the clock read during the analyze_logs call
    synapt_in,       \* the argument of the find_solutions call
    synapt_db,       \* what the database did during the find_solutions call
    out,             \* outcome of the last client call
    calls,           \* calls of the three clients in this submission
    requests,        \* requests sent to the three backends in this submission
    ui,              \* the elements shown, in order
    log_level_filter,\* app.py: log_level_filter, the selection of the level filter
    filtered_logs,   \* app.py: filtered_logs, the entries listed
    probe_http,      \* the exchanges of the last test_connection, in order
    events           \* calls and returns of the stages, in order

vars == <<pc, form, elk_cfg, ai_cfg, synapt_cfg, conn, search_args, logs, error_analysis,
          solution, elk_http, ai_http, ai_in, ai_now, synapt_in, synapt_db, out, calls,
          requests, ui, log_level_filter, filtered_logs, probe_http, events>>

Unset == [t |-> "unset", v |-> << >>]
NoHttp == [kind |-> "unset", status |-> 0, json_ok |-> FALSE, body |-> PyNone]
NoDb == [connect_ok |-> FALSE, catalogue |-> << >>, fails |-> {}]
\* what the variables of one run of the script start from
Blank ==
    [form |-> [work_order |-> << >>, task_name |-> << >>,
               start_date |-> 0, start_time |-> 0, end_date |-> 0, end_time |-> 0],
     search_args |-> [work_order |-> << >>, task_name |-> << >>,
                      start_time |-> PyStr(<< >>), end_time |-> PyStr(<< >>)],
     out |-> Outcome(FALSE, << >>, Unset, 0, FALSE),
     calls |-> [search |-> 0, analysis |-> 0, remediation |-> 0],
     requests |-> [elk |-> 0, ai |-> 0, db_connects |-> 0, db_queries |-> 0]]

Init ==
    /\ elk_cfg \in {"unset", "ok", "non_ascii"}
    /\ ai_cfg \in BOOLEAN
    /\ synapt_cfg \in BOOLEAN
    /\ pc = "idle"
    /\ form = Blank.form
    /\ conn = "none"
    /\ search_args = Blank.search_args
    /\ logs = Unset
    /\ error_analysis = Unset
    /\ solution = Unset
    /\ elk_http = NoHttp
    /\ ai_http = NoHttp
    /\ ai_in = Unset
    /\ ai_now = ""
    /\ synapt_in = Unset
    /\ synapt_db = NoDb
    /\ out = Blank.out
    /\ calls = Blank.calls
    /\ requests = Blank.requests
    /\ ui = << >>
    /\ log_level_filter = {}
    /\ filtered_logs = << >>
    /\ probe_http = << >>
    /\ events = << >>

DateText(d) ==
    CASE d = 1 -> "2024-01-01" [] d = 2 -> "2024-01-02" [] d = 3 -> "2024-01-03"
      [] OTHER -> "2024-01-04"
TimeText(t) ==
    CASE t = 1 -> "09:00:00.000000" [] t = 2 -> "10:00:00.000000" [] t = 3 -> "11:00:00.000000"
      [] OTHER -> "12:00:00.000000"

\* line 70: the test of the time order
TimeOrderRejected(f) == f.end_time <= f.start_time

\* lines 68-72
Validate(f) ==
    IF f.work_order = << >> \/ f.task_name = << >> THEN "required"
    ELSE IF TimeOrderRejected(f) THEN "time_order"
    ELSE "ok"

\* lines 82-88: the arguments of retrieve_logs; the times are
\* datetime.combine(date, time).strftime('%Y-%m-%dT%H:%M:%S.%f')
SearchArgs(f) ==
    [work_order |-> f.work_order, task_name |-> f.task_name,
     start_time |-> PyStr(<<DateText(f.start_date), "T", TimeText(f.start_time)>>),
     end_time |-> PyStr(<<DateText(f.end_date), "T", TimeText(f.end_time)>>)]

\* lines 66-88: validation, and the call of the search client
Submit(f) ==
    /\ pc = "idle"
    /\ form' = f
    /\ IF Validate(f) = "required"
       THEN /\ ui' = <<"error: Work Order and Task Name are required fields">>
            /\ pc' = "done"
            /\ UNCHANGED <<search_args, calls, events>>
       ELSE IF Validate(f) = "time_order"
       THEN /\ ui' = <<"error: End time must be after start time">>
            /\ pc' = "done"
            /\ UNCHANGED <<search_args, calls, events>>
       ELSE /\ search_args' = SearchArgs(f)
            /\ calls' = [calls EXCEPT !.search = @ + 1]
            /\ events' = Append(events, "search_call")
            /\ ui' = <<"status: Retrieving logs from ELK...">>
            /\ pc' = "search"
    /\ UNCHANGED <<probe_http, elk_cfg, ai_cfg, synapt_cfg, conn, logs, error_analysis, solution,
                   elk_http, ai_http, ai_in, ai_now, synapt_in, synapt_db, out, requests,
                   log_level_filter, filtered_logs>>

\* mutant: None is not told apart from an empty list
AfterSearch_NoneAsEmpty(r) ==
    IF r.raised THEN "crashed"
    ELSE IF ~Truthy(r.val) THEN "no_logs"
    ELSE "analyze"

\* lines 91-98: what follows the return of retrieve_logs
AfterSearch(r) ==
    IF r.raised THEN "crashed"
    ELSE IF r.val = PyNone THEN "connect_error"
    ELSE IF ~Truthy(r.val) THEN "no_logs"
    ELSE "analyze"

\* lines 89-98: the script after retrieve_logs returned r
SearchReturned(r, http) ==
    /\ out' = r
    /\ logs' = IF r.raised THEN Unset ELSE r.val
    /\ elk_http' = IF r.requests > 0 THEN http ELSE NoHttp
    /\ requests' = [requests EXCEPT !.elk = @ + r.requests]
    /\ CASE AfterSearch(r) = "crashed" ->
              /\ pc' = "crashed"
              /\ UNCHANGED <<ui, events, calls, ai_in>>
         [] AfterSearch(r) = "connect_error" ->
              /\ pc' = "done"
              /\ ui' = Append(ui, "error: Error connecting to the log service. Please check your connection and try again.")
              /\ events' = Append(events, "search_return")
              /\ UNCHANGED <<calls, ai_in>>
         [] AfterSearch(r) = "no_logs" ->
              /\ pc' = "done"
              /\ ui' = Append(ui, "warning: No logs found for the specified criteria.")
              /\ events' = Append(events, "search_return")
              /\ UNCHANGED <<calls, ai_in>>
         [] OTHER ->
              /\ pc' = "analysis"
              /\ ui' = Append(ui, "status: Analyzing logs with AI Service...")
              /\ events' = events \o <<"search_return", "analysis_call">>
              /\ calls' = [calls EXCEPT !.analysis = @ + 1]
              /\ ai_in' = r.val

\* lines 88-98: retrieve_logs returns; the search stage short-circuits or
\* the analysis client is called
SearchReturns(http) ==
    /\ pc = "search"
    /\ SearchReturned(retrieve_logs(elk_cfg, http), http)
    /\ UNCHANGED <<probe_http, form, elk_cfg, ai_cfg, synapt_cfg, conn, search_args, error_analysis,
                   solution, ai_http, synapt_in, ai_now, synapt_db, log_level_filter,
                   filtered_logs>>

\* line 124: the default selection of the level filter
DefaultLevelFilter == {S("INFO"), S("WARNING"), S("ERROR")}

\* mutant: the level is compared as it is
FilterLogs_CaseSensitive(ls, selection) ==
    LET Selected_(log) == Get(log, S("level"), PyStr(<< >>)).v \in selection
    IN SelectSeq(ls, Selected_)

\* line 128: the logs whose level, upper-cased, is selected
FilterLogs(ls, selection) ==
    LET Selected_(log) == Upper(Get(log, S("level"), PyStr(<< >>)).v) \in selection
    IN SelectSeq(ls, Selected_)

\* lines 132-144: the listing of the filtered logs
RECURSIVE RenderLogs(_, _)
RenderLogs(ls, acc) ==
    IF ls = << >> THEN acc
    ELSE LET level == Upper(Get(Head(ls), S("level"), PyStr(<< >>)).v)
             shown == IF level \in {S("ERROR"), S("SEVERE")} THEN "log error"
                      ELSE IF level \in {S("WARNING"), S("WARN")} THEN "log warning"
                      ELSE "log info"
         IN RenderLogs(Tail(ls), Append(acc, shown))

\* lines 117-144: the logs tab under a selection of the level filter
LogsTab(ls, selection) ==
    <<"subheader: Logs">> \o RenderLogs(FilterLogs(ls, selection), << >>)

\* line 153: error.get('message', '')[:50] raises on an error that is no
\* mapping or whose message cannot be sliced
ErrorTabRaises(errors) ==
    \E i \in 1..Len(errors) :
        \/ errors[i].t # "dict"
        \/ Get(errors[i], S("message"), PyStr(<< >>)).t \notin {"str", "list"}

\* mutant: the guard tests the analysis only, not its errors
HasErrors_AnalysisOnly(analysis) == Truthy(analysis)

\* lines 103, 148, 196: error_analysis and error_analysis.get('errors')
HasErrors(analysis) == Truthy(analysis) /\ Truthy(Get(analysis, S("errors"), PyNone))

\* lines 167-199: the solutions tab
SolutionTab(analysis, sol) ==
    IF Truthy(sol) /\ Truthy(Get(sol, S("recommendations"), PyNone))
    THEN <<"subheader: Solution Recommendations">>
    ELSE IF HasErrors(analysis)
    THEN <<"info: No solutions found for the detected errors.">>
    ELSE <<"success: No errors detected, no solutions needed.">>

\* lines 147-164: the error tab, which raises on an error it cannot show
ErrorTab(analysis) ==
    IF HasErrors(analysis)
    THEN [raised |-> ErrorTabRaises(Get(analysis, S("errors"), PyNone).v),
          shown |-> <<"subheader: Detected Errors">>]
    ELSE [raised |-> FALSE, shown |-> <<"success: No errors detected in the logs.">>]

Tabs(tab1, tab2, tab3) ==
    [raised |-> tab2.raised,
     shown |-> IF tab2.raised THEN tab1 \o tab2.shown ELSE tab1 \o tab2.shown \o tab3]

\* lines 112-199: the three tabs
Render(ls, analysis, sol) ==
    Tabs(LogsTab(ls.v, DefaultLevelFilter), ErrorTab(analysis),
         SolutionTab(analysis, sol))

\* line 106
NoErrorsSolution == SolutionResponse(<< >>, S("No errors to find solutions for."))

\* mutant: the next step is taken before analyze_logs has returned
AfterAnalysisEvents_TooEarly(has_errors) ==
    IF has_errors THEN <<"remediation_call", "analysis_return">>
    ELSE <<"render", "analysis_return">>

\* lines 98-114: the order of the steps after the call of analyze_logs
AfterAnalysisEvents(has_errors) ==
    IF has_errors THEN <<"analysis_return", "remediation_call">>
    ELSE <<"analysis_return", "render">>

\* lines 99-114: the script after analyze_logs returned r
AnalysisReturned(r, http, now) ==
    /\ out' = r
    /\ ai_now' = IF r.requests > 0 THEN now ELSE ""
    /\ ai_http' = IF r.requests > 0 THEN http ELSE NoHttp
    /\ requests' = [requests EXCEPT !.ai = @ + r.requests]
    /\ IF r.raised
       THEN /\ pc' = "crashed"
            /\ UNCHANGED <<error_analysis, solution, synapt_in, calls, ui, events,
                           log_level_filter, filtered_logs>>
       ELSE /\ error_analysis' = r.val
            /\ IF HasErrors(r.val)
               THEN /\ pc' = "remediation"
                    /\ synapt_in' = Get(r.val, S("errors"), PyNone)
                    /\ calls' = [calls EXCEPT !.remediation = @ + 1]
                    /\ ui' = Append(ui, "status: Finding solutions from Synapt...")
                    /\ events' = events \o AfterAnalysisEvents(TRUE)
                    /\ UNCHANGED <<solution, log_level_filter, filtered_logs>>
               ELSE /\ solution' = NoErrorsSolution
                    /\ pc' = IF Render(logs, r.val, NoErrorsSolution).raised
                             THEN "crashed" ELSE "done"
                    /\ ui' = ui \o <<"status: Finding solutions from Synapt...",
                                     "status: Analysis complete!">>
                                \o Render(logs, r.val, NoErrorsSolution).shown
                    /\ events' = events \o AfterAnalysisEvents(FALSE)
                    /\ log_level_filter' = DefaultLevelFilter
                    /\ filtered_logs' = FilterLogs(logs.v, DefaultLevelFilter)
                    /\ UNCHANGED <<synapt_in, calls>>

\* lines 98-114: analyze_logs returns; the remediation client is called, or
\* the trivial solution is used and the results are rendered
AnalysisReturns(http, now) ==
    /\ pc = "analysis"
    /\ AnalysisReturned(analyze_logs(ai_cfg, logs, http, now), http, now)
    /\ UNCHANGED <<probe_http, form, elk_cfg, ai_cfg, synapt_cfg, conn, search_args, logs, elk_http, ai_in,
                   synapt_db>>

\* lines 108-199: the script after find_solutions returned r
RemediationReturned(r, page, db) ==
    /\ solution' = r.val
    /\ synapt_db' = IF r.connects + r.queries > 0 THEN db ELSE NoDb
    /\ conn' = r.conn
    /\ out' = Outcome(FALSE, << >>, r.val, r.connects + r.queries, FALSE)
    /\ requests' = [requests EXCEPT !.db_connects = @ + r.connects,
                                    !.db_queries = @ + r.queries]
    /\ pc' = IF page.raised THEN "crashed" ELSE "done"
    /\ ui' = Append(ui, "status: Analysis complete!") \o page.shown
    /\ log_level_filter' = DefaultLevelFilter
    /\ filtered_logs' = FilterLogs(logs.v, DefaultLevelFilter)
    /\ events' = events \o <<"remediation_return", "render">>

\* lines 104-199: find_solutions returns and the results are rendered
RemediationReturns(db) ==
    /\ pc = "remediation"
    /\ RemediationReturned(find_solutions(synapt_cfg, conn, synapt_in, db),
           Render(logs, error_analysis, find_solutions(synapt_cfg, conn, synapt_in, db).val),
           db)
    /\ UNCHANGED <<probe_http, form, elk_cfg, ai_cfg, synapt_cfg, search_args, logs, error_analysis,
                   elk_http, ai_http, ai_in, ai_now, synapt_in, calls>>

\* the next submission reruns the script: the services are constructed anew
Rerun ==
    /\ pc \in {"done", "crashed"}
    /\ pc' = "idle"
    /\ form' = Blank.form
    /\ conn' = "none"
    /\ search_args' = Blank.search_args
    /\ logs' = Unset
    /\ error_analysis' = Unset
    /\ solution' = Unset
    /\ elk_http' = NoHttp
    /\ ai_http' = NoHttp
    /\ ai_in' = Unset
    /\ ai_now' = ""
    /\ synapt_in' = Unset
    /\ synapt_db' = NoDb
    /\ out' = Blank.out
    /\ calls' = Blank.calls
    /\ requests' = Blank.requests
    /\ ui' = << >>
    /\ log_level_filter' = {}
    /\ filtered_logs' = << >>
    /\ probe_http' = << >>
    /\ events' = << >>
    /\ UNCHANGED <<elk_cfg, ai_cfg, synapt_cfg>>

Next ==
    \/ \E f \in Forms : Submit(f)
    \/ \E http \in ElkBehaviours : SearchReturns(http)
    \/ \E http \in AIBehaviours, now \in Clock : AnalysisReturns(http, now)
    \/ \E db \in DbBehaviours : RemediationReturns(db)
    \/ Rerun

Spec == Init /\ [][Next]_vars

---------------------------------------------------------------------------
(* A direct call of analyze_logs, outside the pipeline *)

DirectAnalyzed(l, r, http, now) ==
    /\ ai_in' = l
    /\ ai_now' = IF r.requests > 0 THEN now ELSE ""
    /\ out' = r
    /\ ai_http' = IF r.requests > 0 THEN http ELSE NoHttp
    /\ requests' = [requests EXCEPT !.ai = @ + r.requests]
    /\ error_analysis' = IF r.raised THEN Unset ELSE r.val
    /\ calls' = [calls EXCEPT !.analysis = @ + 1]
    /\ events' = <<"analysis_call", "analysis_return">>
    /\ pc' = IF r.raised THEN "crashed" ELSE "done"

DirectAnalyze(l, http, now) ==
    /\ pc = "idle"
    /\ DirectAnalyzed(l, analyze_logs(ai_cfg, l, http, now), http, now)
    /\ UNCHANGED <<probe_http, form, elk_cfg, ai_cfg, synapt_cfg, conn, search_args, logs, solution,
                   elk_http, synapt_in, synapt_db, ui, log_level_filter, filtered_logs>>

NextAnalyze ==
    \/ \E l \in AnalyzeInputs, http \in AIBehaviours, now \in Clock : DirectAnalyze(l, http, now)
    \/ Rerun

SpecAnalyze == Init /\ [][NextAnalyze]_vars

---------------------------------------------------------------------------
(* A direct call of find_solutions, outside the pipeline *)

\* the step lists a row may store
StepContents ==
    {<<S("stop"), S("start")>>, <<S("wait")>>,
     <<<<"[", "opt", "]", " ", "stop">>, S("start")>>}

\* the steps joined by newlines
RECURSIVE JoinLines(_)
JoinLines(c) ==
    IF c = << >> THEN << >>
    ELSE IF Len(c) = 1 THEN c[1]
    ELSE c[1] \o <<"\n">> \o JoinLines(Tail(c))

\* the stored encodings of a step list: a native sequence, a JSON-array
\* string, and a newline-delimited string
Encodings(c) ==
    {PyList([i \in 1..Len(c) |-> PyStr(c[i])]),
     PyStr(Serialize(PyList([i \in 1..Len(c) |-> PyStr(c[i])]))),
     PyStr(JoinLines(c))}

\* the tables a direct call may meet: the pipeline's, one row per encoding
\* of each step list, rows of equal and of unknown confidence, and rows
\* that differ from the message in case, in one character, or beyond the
\* prefix
SolveCatalogues ==
    LET Long == [i \in 1..PrefixLen |-> "a"]
        High == Row("1", <<"boom", " ", "error">>, S("restart"), PyNum("0.9"), PyNone)
        Other == Row("2", <<"a", "Boom", " ", "Error">>, S("reboot"), PyNum("0.9"), PyNone)
        Mid == Row("4", <<"BOOM", " ", "ERROR", " ", "z">>, S("wait"), PyNum("0.5"), PyNone)
        Null == Row("5", <<"boom", " ", "error">>, S("retry"), PyNone, PyNone)
        Items == Row("6", <<"100", " ", "items", " ", "done">>, S("none"), PyNum("0.5"), PyNone)
        Percent == Row("8", <<"is", " ", "100", "%", " ", "Done">>, S("ok"), PyNum("0.5"), PyNone)
        Prefix == Row("9", Long \o <<"b">>, S("trim"), PyNum("0.5"), PyNone)
    IN Catalogues
       \cup {<<Row("7", <<"boom", " ", "error">>, S("restart"), PyNum("0.9"), e)>> :
                e \in UNION {Encodings(c) : c \in StepContents}}
       \cup {<<High, Other>>, <<Other, High>>, <<Mid, High>>, <<High, Null>>, <<Mid>>,
             <<Items>>, <<Percent>>, <<Items, Percent>>, <<Prefix>>}

SolveDbs ==
    [connect_ok : BOOLEAN, catalogue : SolveCatalogues, fails : SUBSET (1..MaxErrors)]

\* the arguments of a direct call
SolveErrors ==
    LET Err(m) == Dict(<< <<"message", m>>, <<"severity", PyStr(S("High"))>> >>)
        Boom == Err(PyStr(<<"boom", " ", "ERROR">>))
        NoMessage == Dict(<< <<"severity", PyStr(S("Low"))>> >>)
    IN {PyList(<< >>), PyNone,
        PyList(<<Boom>>), PyList(<<NoMessage, Boom>>), PyList(<<Boom, Err(PyStr(<< >>))>>),
        PyList(<<Boom, PyNum("7")>>), PyList(<<PyNum("7"), Boom>>),
        PyList(<<Err(PyNum("7")), Boom>>),
        PyList(<<Err(PyStr(<<"100", "%", " ", "done">>))>>),
        PyList(<<Err(PyStr(<<"100", "_", "done">>))>>),
        PyList(<<Err(PyStr([i \in 1..(PrefixLen + 1) |-> "a"]))>>),
        PyList(<<Err(PyStr(<<"Error", " ", "x">>)), Boom>>)}

\* find_solutions(e) returned r
SolveReturned(e, r, db) ==
    /\ synapt_in' = e
    /\ synapt_db' = IF r.connects + r.queries > 0 THEN db ELSE NoDb
    /\ solution' = r.val
    /\ conn' = r.conn
    /\ out' = Outcome(FALSE, << >>, r.val, r.connects + r.queries, FALSE)
    /\ requests' = [requests EXCEPT !.db_connects = @ + r.connects,
                                    !.db_queries = @ + r.queries]
    /\ calls' = [calls EXCEPT !.remediation = @ + 1]
    /\ events' = <<"remediation_call", "remediation_return">>

DirectSolved(e, r, db) == SolveReturned(e, r, db) /\ pc' = "done"

DirectSolve(e, db) ==
    /\ pc = "idle"
    /\ DirectSolved(e, find_solutions(synapt_cfg, conn, e, db), db)
    /\ UNCHANGED <<probe_http, form, elk_cfg, ai_cfg, synapt_cfg, search_args, logs, error_analysis,
                   elk_http, ai_http, ai_in, ai_now, ui, log_level_filter, filtered_logs>>

NextSolve ==
    \/ \E e \in SolveErrors, db \in SolveDbs : DirectSolve(e, db)
    \/ Rerun

SpecSolve == Init /\ [][NextSolve]_vars

---------------------------------------------------------------------------
(* A direct call of retrieve_logs, and the listing of its result *)

\* strftime('%Y-%m-%dT%H:%M:%S.%f') of a date and a time of day
Stamp(d, t) == <<DateText(d), "T", TimeText(t)>>

\* hits whose fields come under the second or third synonym, under several
\* synonyms at once, or under a first synonym that is empty
SynonymHitLists ==
    LET HitWarn ==
            Dict(<< <<"_source", Dict(<< <<"time", PyStr(Stamp(1, 1))>>,
                                         <<"severity", PyStr(S("warn"))>>,
                                         <<"log_message", PyStr(S("slow"))>> >>)>> >>)
        HitSevere ==
            Dict(<< <<"_source", Dict(<< <<"timestamp", PyStr(Stamp(2, 2))>>,
                                         <<"@timestamp", PyStr(S("t2"))>>,
                                         <<"time", PyStr(S("t3"))>>,
                                         <<"level", PyStr(S("severe"))>>,
                                         <<"log_level", PyStr(S("info"))>>,
                                         <<"severity", PyStr(S("debug"))>>,
                                         <<"message", PyStr(S("disk"))>>,
                                         <<"msg", PyStr(S("other"))>>,
                                         <<"log_message", PyStr(S("third"))>>,
                                         <<"host", PyStr(S("h2"))>> >>)>> >>)
        HitDebug ==
            Dict(<< <<"_source", Dict(<< <<"@timestamp", PyStr(Stamp(1, 2))>>,
                                         <<"time", PyStr(S("t3"))>>,
                                         <<"log_level", PyStr(S("debug"))>>,
                                         <<"severity", PyStr(S("info"))>>,
                                         <<"msg", PyStr(S("dbg"))>>,
                                         <<"log_message", PyStr(S("third"))>>,
                                         <<"error", PyNone>> >>)>> >>)
        HitEmptyFirst ==
            Dict(<< <<"_source", Dict(<< <<"timestamp", PyStr(<< >>)>>,
                                         <<"@timestamp", PyStr(Stamp(1, 2))>>,
                                         <<"level", PyStr(<< >>)>>,
                                         <<"severity", PyStr(S("ERROR"))>>,
                                         <<"message", PyNone>>,
                                         <<"msg", PyStr(S("kept"))>> >>)>> >>)
        HitError ==
            Dict(<< <<"_source", Dict(<< <<"timestamp", PyStr(Stamp(1, 2))>>,
                                         <<"level", PyStr(S("Error"))>>,
                                         <<"message", PyStr(S("failed"))>> >>)>> >>)
    IN {<<HitWarn>>, <<HitSevere, HitWarn>>, <<HitDebug, HitError>>, <<HitEmptyFirst>>,
        <<HitError, HitDebug, HitError>>, <<HitSevere, HitError, HitDebug>>}

\* retrieve_logs is called with the range of a form; a list that is not
\* empty is then listed
DirectRetrieve(f, http) ==
    /\ pc = "idle"
    /\ search_args' = SearchArgs(f)
    /\ out' = retrieve_logs(elk_cfg, http)
    /\ logs' = out'.val
    /\ elk_http' = IF out'.requests > 0 THEN http ELSE NoHttp
    /\ requests' = [requests EXCEPT !.elk = @ + out'.requests]
    /\ calls' = [calls EXCEPT !.search = @ + 1]
    /\ events' = <<"search_call", "search_return">>
    /\ pc' = IF Truthy(out'.val) THEN "listing" ELSE "done"
    /\ UNCHANGED <<probe_http, form, elk_cfg, ai_cfg, synapt_cfg, conn, error_analysis, solution, ai_http,
                   ai_in, ai_now, synapt_in, synapt_db, ui, log_level_filter, filtered_logs>>

\* lines 117-144: the logs tab is drawn under a selection of the filter
ShowLogs(selection) ==
    /\ pc = "listing"
    /\ log_level_filter' = selection
    /\ filtered_logs' = FilterLogs(logs.v, selection)
    /\ ui' = LogsTab(logs.v, selection)
    /\ pc' = "done"
    /\ UNCHANGED <<probe_http, form, elk_cfg, ai_cfg, synapt_cfg, conn, search_args, logs, error_analysis,
                   solution, elk_http, ai_http, ai_in, ai_now, synapt_in, synapt_db, out,
                   calls, requests, events>>

---------------------------------------------------------------------------
(* One method call on freshly constructed clients: the connectivity probes *)
(* and get_connection, besides the three calls above                       *)

\* what the database may answer to the version query: execute raises, or
\* fetchone returns None or a row
VersionAnswers ==
    {HttpRaise, HttpResponse(0, TRUE, PyNone),
     HttpResponse(0, TRUE, PyList(<<PyStr(S("PostgreSQL 15"))>>))}

\* a connection object
Connection == [t |-> "connection", v |-> << >>]

\* ELKService.test_connection() is called, with what the backend answers to
\* the index check and to the cluster health check
ProbeSearch(head, health) ==
    /\ pc = "idle"
    /\ out' = elk_test_connection(elk_cfg, head, health)
    /\ probe_http' = SubSeq(<<head, health>>, 1, out'.requests)
    /\ requests' = [requests EXCEPT !.elk = @ + out'.requests]
    /\ calls' = [calls EXCEPT !.search = @ + 1]
    /\ events' = <<"ELKService.test_connection">>
    /\ pc' = "done"
    /\ UNCHANGED <<form, elk_cfg, ai_cfg, synapt_cfg, conn, search_args, logs, error_analysis,
                   solution, elk_http, ai_http, ai_in, ai_now, synapt_in, synapt_db, ui,
                   log_level_filter, filtered_logs>>

\* VegasGPTService.test_connection() is called, with what the backend
\* answers to the test prompt
ProbeAnalysis(http) ==
    /\ pc = "idle"
    /\ out' = vegas_test_connection(ai_cfg, http)
    /\ probe_http' = SubSeq(<<http>>, 1, out'.requests)
    /\ requests' = [requests EXCEPT !.ai = @ + out'.requests]
    /\ calls' = [calls EXCEPT !.analysis = @ + 1]
    /\ events' = <<"VegasGPTService.test_connection">>
    /\ pc' = "done"
    /\ UNCHANGED <<form, elk_cfg, ai_cfg, synapt_cfg, conn, search_args, logs, error_analysis,
                   solution, elk_http, ai_http, ai_in, ai_now, synapt_in, synapt_db, ui,
                   log_level_filter, filtered_logs>>

\* SynaptService.test_connection() returned r
DbProbed(r, answer) ==
    /\ conn' = r.conn
    /\ out' = Outcome(FALSE, << >>, r.val, r.connects + r.queries, FALSE)
    /\ probe_http' = IF r.queries = 0 THEN << >> ELSE <<answer>>
    /\ requests' = [requests EXCEPT !.db_connects = @ + r.connects,
                                    !.db_queries = @ + r.queries]
    /\ calls' = [calls EXCEPT !.remediation = @ + 1]
    /\ events' = <<"SynaptService.test_connection">>

ProbeDb(connect_ok, answer) ==
    /\ pc = "idle"
    /\ DbProbed(synapt_test_connection(synapt_cfg, conn, connect_ok, answer), answer)
    /\ pc' = "done"
    /\ UNCHANGED <<form, elk_cfg, ai_cfg, synapt_cfg, search_args, logs, error_analysis,
                   solution, elk_http, ai_http, ai_in, ai_now, synapt_in, synapt_db, ui,
                   log_level_filter, filtered_logs>>

\* SynaptService.get_connection() returned c
GotConnection(c) ==
    /\ conn' = c.conn
    /\ out' = Outcome(FALSE, << >>, IF c.ret = "none" THEN PyNone ELSE Connection,
                      c.connects, FALSE)
    /\ requests' = [requests EXCEPT !.db_connects = @ + c.connects]
    /\ calls' = [calls EXCEPT !.remediation = @ + 1]
    /\ events' = <<"SynaptService.get_connection">>

DirectGet(connect_ok) ==
    /\ pc = "idle"
    /\ GotConnection(get_connection(synapt_cfg, conn, connect_ok))
    /\ pc' = "done"
    /\ UNCHANGED <<form, elk_cfg, ai_cfg, synapt_cfg, search_args, logs, error_analysis,
                   solution, elk_http, ai_http, ai_in, ai_now, synapt_in, synapt_db, ui,
                   log_level_filter, filtered_logs, probe_http>>

NextProbe ==
    \/ \E head \in {HttpRaise} \cup {HttpResponse(st, FALSE, PyNone) : st \in StatusCodes \cup {204}},
          health \in {HttpRaise}
                     \cup {HttpResponse(st, FALSE, PyNone) : st \in {200, 503}}
                     \cup {HttpResponse(200, TRUE, b) :
                             b \in {Dict(<< <<"status", PyStr(S("green"))>>,
                                            <<"cluster_name", PyStr(S("c1"))>> >>),
                                    PyDict(<< >>), PyList(<< >>)}} :
          ProbeSearch(head, health)
    \/ \E http \in {HttpRaise}
                   \cup {HttpResponse(st, FALSE, PyNone) : st \in StatusCodes}
                   \cup {HttpResponse(404, TRUE, Dict(<< <<"ai_response", PyStr(S("ok"))>> >>))}
                   \cup {HttpResponse(200, TRUE, b) :
                           b \in {Dict(<< <<"ai_response", PyStr(S("ok"))>> >>), PyDict(<< >>),
                                  Dict(<< <<"detail", PyStr(S("ai_response"))>> >>),
                                  PyList(<< >>), PyList(<<PyStr(S("ai_response"))>>),
                                  PyStr(<<"no", " ", "ai_response">>), PyStr(S("ok")),
                                  PyNum("7"), PyNone}} :
          ProbeAnalysis(http)
    \/ \E connect_ok \in BOOLEAN, answer \in VersionAnswers : ProbeDb(connect_ok, answer)
    \/ \E connect_ok \in BOOLEAN : DirectGet(connect_ok)
    \/ \E f \in {x \in Forms : x.work_order # << >> /\ x.task_name # << >>},
          http \in ElkBehaviours
                   \cup {HttpResponse(200, TRUE, SearchBody(h)) : h \in SynonymHitLists} :
          DirectRetrieve(f, http)
    \/ \E selection \in {DefaultLevelFilter, {}, {S("DEBUG")}, {S("ERROR"), S("TRACE")},
                          {S("INFO"), S("WARNING")},
                          {S("INFO"), S("WARNING"), S("ERROR"), S("DEBUG"), S("TRACE")}} :
          ShowLogs(selection)
    \/ \E l \in AnalyzeInputs, http \in AIBehaviours, now \in Clock : DirectAnalyze(l, http, now)
    \/ \E e \in SolveErrors, db \in SolveDbs : DirectSolve(e, db)
    \/ Rerun

SpecProbe == Init /\ [][NextProbe]_vars

---------------------------------------------------------------------------
(* One SynaptService instance over a sequence of method calls *)

MaxCalls == 3

InstanceGet(connect_ok) ==
    /\ pc = "idle" /\ calls.remediation < MaxCalls
    /\ GotConnection(get_connection(synapt_cfg, conn, connect_ok))
    /\ UNCHANGED <<pc, form, elk_cfg, ai_cfg, synapt_cfg, search_args, logs, error_analysis,
                   solution, elk_http, ai_http, ai_in, ai_now, synapt_in, synapt_db, ui,
                   log_level_filter, filtered_logs, probe_http>>

InstanceTest(connect_ok, answer) ==
    /\ pc = "idle" /\ calls.remediation < MaxCalls
    /\ DbProbed(synapt_test_connection(synapt_cfg, conn, connect_ok, answer), answer)
    /\ UNCHANGED <<pc, form, elk_cfg, ai_cfg, synapt_cfg, search_args, logs, error_analysis,
                   solution, elk_http, ai_http, ai_in, ai_now, synapt_in, synapt_db, ui,
                   log_level_filter, filtered_logs>>

InstanceSolve(e, db) ==
    /\ pc = "idle" /\ calls.remediation < MaxCalls
    /\ SolveReturned(e, find_solutions(synapt_cfg, conn, e, db), db)
    /\ UNCHANGED <<pc, form, elk_cfg, ai_cfg, synapt_cfg, search_args, logs, error_analysis,
                   elk_http, ai_http, ai_in, ai_now, ui, log_level_filter, filtered_logs,
                   probe_http>>

\* SynaptService.close_connection()
InstanceClose ==
    /\ pc = "idle" /\ calls.remediation < MaxCalls
    /\ conn' = close_connection(conn)
    /\ out' = Outcome(FALSE, << >>, PyNone, 0, FALSE)
    /\ calls' = [calls EXCEPT !.remediation = @ + 1]
    /\ events' = <<"SynaptService.close_connection">>
    /\ UNCHANGED <<pc, form, elk_cfg, ai_cfg, synapt_cfg, search_args, logs, error_analysis,
                   solution, elk_http, ai_http, ai_in, ai_now, synapt_in, synapt_db, requests,
                   ui, log_level_filter, filtered_logs, probe_http>>

\* line 35: the held connection is found closed once the server or the
\* network has dropped it
ConnectionDrops ==
    /\ pc = "idle" /\ conn = "open"
    /\ conn' = "closed"
    /\ UNCHANGED <<pc, form, elk_cfg, ai_cfg, synapt_cfg, search_args, logs, error_analysis,
                   solution, elk_http, ai_http, ai_in, ai_now, synapt_in, synapt_db, out,
                   calls, requests, ui, log_level_filter, filtered_logs, probe_http, events>>

NextConn ==
    \/ \E connect_ok \in BOOLEAN : InstanceGet(connect_ok)
    \/ \E connect_ok \in BOOLEAN, answer \in VersionAnswers : InstanceTest(connect_ok, answer)
    \/ \E e \in {PyList(<< >>),
                  PyList(<<Dict(<< <<"message", PyStr(<<"boom", " ", "ERROR">>)>> >>)>>)},
          db \in {x \in DbBehaviours : Len(x.catalogue) <= 1 /\ x.fails \subseteq {1}} :
          InstanceSolve(e, db)
    \/ InstanceClose
    \/ ConnectionDrops

SpecConn == Init /\ [][NextConn]_vars

---------------------------------------------------------------------------
(* Properties *)

Submitted == pc # "idle"

\* the end timestamp (date, then time) is equal to or before the start timestamp
EndNotAfterStart(f) ==
    \/ f.end_date < f.start_date
    \/ f.end_date = f.start_date /\ f.end_time <= f.start_time

ValidationErrorShown ==
    /\ Len(ui) = 1
    /\ ui[1] \in {"error: Work Order and Task Name are required fields",
                  "error: End time must be after start time"}

NoClientCalled == calls = Blank.calls /\ requests = Blank.requests

\* C1: a submission with an empty work order or task name, or whose end
\* timestamp (date and time) is not after its start timestamp, shows a
\* validation error and stops without any call of the three clients.
C1_InvalidSubmissionRejected ==
    (Submitted /\ (form.work_order = << >> \/ form.task_name = << >> \/ EndNotAfterStart(form)))
        => (pc = "done" /\ ValidationErrorShown /\ NoClientCalled)

\* C2: a submission with a work order, a task name and a start timestamp
\* strictly before its end timestamp passes validation and calls Search
\* exactly once with those two timestamps.
C2_ValidSubmissionSearches ==
    (Submitted /\ form.work_order # << >> /\ form.task_name # << >> /\ ~EndNotAfterStart(form))
        => /\ ~ValidationErrorShown
           /\ calls.search = 1
           /\ search_args.start_time.v = <<DateText(form.start_date), "T", TimeText(form.start_time)>>
           /\ search_args.end_time.v = <<DateText(form.end_date), "T", TimeText(form.end_time)>>

SearchDone == logs # Unset

Answered(http) == http.kind = "response"

\* the level of a hit's source, by the priority of its synonyms
ResolvedLevel(src) ==
    IF S("level") \in DOMAIN src THEN src[S("level")]
    ELSE IF S("log_level") \in DOMAIN src THEN src[S("log_level")]
    ELSE IF S("severity") \in DOMAIN src THEN src[S("severity")]
    ELSE PyStr(<< >>)

\* a hit that cannot be normalised
HitUnusable(hit) ==
    \/ hit.t # "dict"
    \/ S("_source") \in DOMAIN hit.v /\ hit.v[S("_source")].t # "dict"
    \/ S("_source") \in DOMAIN hit.v /\ ResolvedLevel(hit.v[S("_source")].v).t # "str"

HitsUnusable(hits) ==
    /\ hits \notin {PyList(<< >>), PyNone, PyStr(<< >>), PyNum("0"), PyDict(<< >>)}
    /\ hits.t = "list" => \E i \in 1..Len(hits.v) : HitUnusable(hits.v[i])

\* a 200 body that is not JSON or not of the shape {hits: {hits: [...]}}
BodyUnusable(http) ==
    \/ ~http.json_ok
    \/ http.body.t # "dict"
    \/ S("hits") \in DOMAIN http.body.v
         /\ \/ http.body.v[S("hits")].t # "dict"
            \/ S("hits") \in DOMAIN http.body.v[S("hits")].v
                 /\ HitsUnusable(http.body.v[S("hits")].v[S("hits")])

\* a well-formed 200 body with zero hits
ZeroHitsBody(http) ==
    /\ http.json_ok
    /\ http.body.t = "dict"
    /\ S("hits") \in DOMAIN http.body.v =>
         /\ http.body.v[S("hits")].t = "dict"
         /\ S("hits") \in DOMAIN http.body.v[S("hits")].v =>
              http.body.v[S("hits")].v[S("hits")] = PyList(<< >>)

\* C3 as stated: retrieve_logs returns None exactly when the client is not
\* configured, the request raises, or the status is not 200, and an empty
\* list on a 200 answer with zero hits.
C3_FailureExactlyWhen ==
    SearchDone =>
        /\ (logs = PyNone) <=>
              \/ elk_cfg = "unset"
              \/ elk_http.kind = "raise"
              \/ Answered(elk_http) /\ elk_http.status # 200
        /\ (Answered(elk_http) /\ elk_http.status = 200 /\ ZeroHitsBody(elk_http))
              => logs = PyList(<< >>)

\* C3 amended: retrieve_logs returns None exactly when the client is not
\* configured, the credentials cannot be encoded, the request raises, the
\* status is not 200, or the 200 body cannot be decoded and normalised; it
\* returns an empty list on a well-formed 200 answer with zero hits, and a
\* list in every other case.
C3_FailureOrList ==
    SearchDone =>
        /\ (logs = PyNone) <=>
              \/ elk_cfg \in {"unset", "non_ascii"}
              \/ elk_http.kind = "raise"
              \/ Answered(elk_http) /\ elk_http.status # 200
              \/ Answered(elk_http) /\ elk_http.status = 200 /\ BodyUnusable(elk_http)
        /\ (Answered(elk_http) /\ elk_http.status = 200 /\ ZeroHitsBody(elk_http))
              => logs = PyList(<< >>)
        /\ logs # PyNone => logs.t = "list"

C3_Witness ==
    /\ SearchDone
    /\ Answered(elk_http) /\ elk_http.status = 200 /\ ZeroHitsBody(elk_http)
    /\ logs = PyList(<< >>)

NoLaterStage ==
    /\ calls.analysis = 0 /\ calls.remediation = 0
    /\ requests.ai = 0 /\ requests.db_connects = 0 /\ requests.db_queries = 0

\* C4: when Search returns failure a connectivity error is shown, when it
\* returns an empty collection a 'no logs found' warning is shown, and in
\* both cases the submission stops without a call of Analysis or Remediation.
C4_SearchShortCircuit ==
    /\ logs = PyNone =>
         /\ pc = "done"
         /\ ui[Len(ui)] = "error: Error connecting to the log service. Please check your connection and try again."
         /\ NoLaterStage
    /\ logs = PyList(<< >>) =>
         /\ pc = "done"
         /\ ui[Len(ui)] = "warning: No logs found for the specified criteria."
         /\ NoLaterStage

C4_Witness ==
    /\ logs = PyNone /\ Answered(elk_http) /\ elk_http.status = 503
    /\ pc = "done" /\ calls.search = 1

NonEmptyLogs == logs # Unset /\ logs.t = "list" /\ logs.v # << >>

AnalysisDone == error_analysis # Unset

ErrorsFound(analysis) ==
    /\ S("errors") \in DOMAIN analysis.v
    /\ analysis.v[S("errors")] \notin {PyList(<< >>), PyNone, PyStr(<< >>)}

NoRemediationCall ==
    calls.remediation = 0 /\ requests.db_connects = 0 /\ requests.db_queries = 0

\* C5: when Search returns a non-empty collection, Analysis is called exactly
\* once on it; find_solutions is called (once, with the analysis errors) if
\* and only if the analysis errors are non-empty, and otherwise the trivial
\* response is used without any remediation backend call.
C5_RemediationIffErrors ==
    NonEmptyLogs =>
        /\ calls.analysis = 1
        /\ ai_in = logs
        /\ AnalysisDone =>
             IF ErrorsFound(error_analysis)
             THEN /\ calls.remediation = 1
                  /\ synapt_in = error_analysis.v[S("errors")]
             ELSE /\ NoRemediationCall
                  /\ solution = PyDict((S("recommendations") :> PyList(<< >>))
                                    @@ (S("summary") :> PyStr(<<"No errors to find solutions for.">>)))

C5_Witness ==
    /\ NonEmptyLogs /\ AnalysisDone /\ ErrorsFound(error_analysis)
    /\ calls.remediation = 1 /\ pc = "done" /\ solution # Unset

Count(e) == Cardinality({i \in 1..Len(events) : events[i] = e})

Pos(e) == IF Count(e) = 0 THEN 0 ELSE CHOOSE i \in 1..Len(events) : events[i] = e

Before(a, b) == Pos(a) > 0 /\ Pos(a) < Pos(b)

\* C6: the stages run in the order Search, Analysis, Remediation, Render:
\* each client is called at most once, Analysis is called only after Search
\* returned, Remediation only after Analysis returned, and the results are
\* rendered only after every stage that was called has returned.
C6_StageOrder ==
    /\ \A i \in 1..Len(events) : Count(events[i]) = 1
    /\ calls.search = Count("search_call") /\ calls.analysis = Count("analysis_call")
    /\ calls.remediation = Count("remediation_call")
    /\ Count("search_return") = 1 => Before("search_call", "search_return")
    /\ Count("analysis_call") = 1 => Before("search_return", "analysis_call")
    /\ Count("analysis_return") = 1 => Before("analysis_call", "analysis_return")
    /\ Count("remediation_call") = 1 => Before("analysis_return", "remediation_call")
    /\ Count("remediation_return") = 1 => Before("remediation_call", "remediation_return")
    /\ Count("render") = 1 =>
         /\ Pos("render") = Len(events)
         /\ Before("search_return", "render") /\ Before("analysis_return", "render")
         /\ Count("remediation_call") = 1 => Before("remediation_return", "render")

C6_Witness ==
    events = <<"search_call", "search_return", "analysis_call", "analysis_return",
               "remediation_call", "remediation_return", "render">>

Called == pc # "idle"

EmptyErrorsWith(summary) ==
    PyDict((S("errors") :> PyList(<< >>)) @@ (S("summary") :> PyStr(summary)))

\* C7 as stated: on an empty log sequence analyze_logs returns
\* {errors: [], summary: "No logs available to analyze."} and sends no
\* request, whatever the configuration of the client.
C7_EmptyLogsAnyConfiguration ==
    (Called /\ ai_in = PyList(<< >>)) =>
        /\ error_analysis = EmptyErrorsWith(<<"No logs available to analyze.">>)
        /\ requests.ai = 0

\* C7 amended: on an empty log sequence analyze_logs sends no request in
\* any configuration state; it returns {errors: [], summary: "No logs
\* available to analyze."} when the client is configured and {errors: [],
\* summary: "Error: AI service not configured."} when it is not.
C7_EmptyLogsNoRequest ==
    (Called /\ ai_in = PyList(<< >>)) =>
        /\ requests.ai = 0
        /\ pc = "done"
        /\ ai_cfg => error_analysis = EmptyErrorsWith(<<"No logs available to analyze.">>)
        /\ ~ai_cfg => error_analysis = EmptyErrorsWith(<<"Error: AI service not configured.">>)

C7_Witness ==
    /\ pc = "done" /\ ai_in = PyList(<< >>) /\ ai_cfg
    /\ error_analysis = EmptyErrorsWith(<<"No logs available to analyze.">>)

\* C8: for every input and every behaviour of the backend analyze_logs
\* returns without raising, and its result has an `errors` entry that is a
\* list and a `summary` entry.
C8_AlwaysStructuredResult ==
    Called =>
        /\ pc = "done"
        /\ ~out.raised
        /\ error_analysis.t = "dict"
        /\ S("errors") \in DOMAIN error_analysis.v
        /\ error_analysis.v[S("errors")].t = "list"
        /\ S("summary") \in DOMAIN error_analysis.v

C8_Witness ==
    /\ pc = "done" /\ ai_http.kind = "raise"
    /\ error_analysis = EmptyErrorsWith(<<"Error during analysis: ", "ConnectionError">>)

\* C9: when the backend answers with a status other than 200, analyze_logs
\* returns {errors: [], summary: "Error from AI service: <status>"} and
\* does not decode the response body.
C9_NonSuccessStatus ==
    \A code \in {<<404, "404">>, <<500, "500">>, <<503, "503">>} :
        (Called /\ Answered(ai_http) /\ ai_http.status = code[1]) =>
            /\ error_analysis = EmptyErrorsWith(<<"Error from AI service: ", code[2]>>)
            /\ ~out.parsed

C9_Witness ==
    /\ pc = "done" /\ Answered(ai_http) /\ ai_http.status = 404 /\ ai_http.json_ok
    /\ error_analysis = EmptyErrorsWith(<<"Error from AI service: ", "404">>)

\* the backend answered 200 with the text p, the object o, the text s
Sent(p, o, s) ==
    /\ pc = "done"
    /\ ai_http = HttpResponse(200, TRUE, Dict(<< <<"ai_response", PyStr(p \o Serialize(o) \o s)>> >>))

ExpectedErrors(o) ==
    IF S("errors") \in DOMAIN o.v /\ o.v[S("errors")].t = "list"
    THEN o.v[S("errors")] ELSE PyList(<< >>)

ExpectedSummary(o) ==
    IF S("summary") \in DOMAIN o.v
    THEN o.v[S("summary")] ELSE PyStr(<<"Analysis completed without summary.">>)

\* C10 as stated: when the response text holds exactly one JSON object
\* between its first { and its last }, the result is that object with a
\* missing or non-list `errors` replaced by an empty list and a missing
\* `summary` by the default; every other top-level key is unchanged.
C10_DecodeKeepsEveryOtherKey ==
    \A p \in Prefixes, o \in EmbeddedObjects, s \in Suffixes :
        Sent(p, o, s) =>
            /\ error_analysis.v[S("errors")] = ExpectedErrors(o)
            /\ error_analysis.v[S("summary")] = ExpectedSummary(o)
            /\ \A k \in DOMAIN o.v \ {S("errors"), S("summary")} :
                   k \in DOMAIN error_analysis.v /\ error_analysis.v[k] = o.v[k]

\* C10 amended: as stated, except that the key `_raw_response` of the
\* result always holds the raw response text, replacing any value the
\* object had under that key; the result has no other key.
C10_DecodeKeepsObject ==
    \A p \in Prefixes, o \in EmbeddedObjects, s \in Suffixes :
        Sent(p, o, s) =>
            /\ error_analysis.v[S("errors")] = ExpectedErrors(o)
            /\ error_analysis.v[S("summary")] = ExpectedSummary(o)
            /\ \A k \in DOMAIN o.v \ {S("errors"), S("summary"), S("_raw_response")} :
                   k \in DOMAIN error_analysis.v /\ error_analysis.v[k] = o.v[k]
            /\ error_analysis.v[S("_raw_response")] = PyStr(p \o Serialize(o) \o s)
            /\ DOMAIN error_analysis.v
                 = DOMAIN o.v \cup {S("errors"), S("summary"), S("_raw_response")}

C10_Witness ==
    \E p \in Prefixes \ {<< >>}, o \in EmbeddedObjects, s \in Suffixes \ {<< >>} :
        /\ Sent(p, o, s)
        /\ S("extra") \in DOMAIN o.v
        /\ error_analysis.v[S("extra")] = PyNum("7")
        /\ error_analysis.v[S("summary")] = PyNone

\* the raw text of a 200 answer that analyze_logs examined
ResponseText == ai_http.body.v[S("ai_response")].v

TextExamined ==
    /\ pc = "done" /\ requests.ai = 1
    /\ ai_http.kind = "response" /\ ai_http.status = 200 /\ ai_http.json_ok
    /\ ai_http.body.t = "dict" /\ S("ai_response") \in DOMAIN ai_http.body.v
    /\ ai_http.body.v[S("ai_response")].t = "str"

\* no { of the text is followed by a }
NoBracePair(t) == ~ \E i, j \in 1..Len(t) : i < j /\ t[i] = "{" /\ t[j] = "}"

\* the line contains "error" or "exception" under case-insensitive comparison
Indicated(line) ==
    \E i \in 1..Len(line) :
        line[i] \in {"error", "Error", "ERROR", "errors", "ERROR_LOG: [",
                     "exception", "Exception", "EXCEPTION"}

IndicatedLines(t) == SelectSeq(Split(t, << >>, << >>), Indicated)

DetectedErrors == error_analysis.v[S("errors")].v

\* C11: when the response has no {/} pair, the errors list holds exactly
\* one DetectedError for every line containing "error" or "exception" under
\* case-insensitive comparison (lower-case and upper-case "exception"
\* included), in line order, and none for any other line.
C11_EveryIndicatedLineExtracted ==
    (TextExamined /\ NoBracePair(ResponseText)) =>
        /\ Len(DetectedErrors) = Len(IndicatedLines(ResponseText))
        /\ \A i \in 1..Len(DetectedErrors) :
               Strip(DetectedErrors[i].v[S("message")].v) = Strip(IndicatedLines(ResponseText)[i])

\* the text from the first { to the last } is not valid JSON
DecodeFails(t) ==
    /\ ~NoBracePair(t)
    /\ ~json_loads(SubSeq(t, CHOOSE i \in 1..Len(t) : t[i] = "{" /\ \A j \in 1..(i-1) : t[j] # "{",
                             CHOOSE i \in 1..Len(t) : t[i] = "}" /\ \A j \in (i+1)..Len(t) : t[j] # "}")).ok

HeuristicCase == TextExamined /\ (NoBracePair(ResponseText) \/ DecodeFails(ResponseText))

ResponseLines == {Split(ResponseText, << >>, << >>)[i] :
                    i \in 1..Len(Split(ResponseText, << >>, << >>))}

\* C12 as stated: in both decode-failure cases every DetectedError of the
\* heuristic extractor has root_cause "Unknown", severity "Unknown", the
\* current time as timestamp, and the flagged line as message.
C12_HeuristicErrorsUnknown ==
    HeuristicCase =>
        \A i \in 1..Len(DetectedErrors) :
            /\ DetectedErrors[i].v[S("root_cause")] = PyStr(<<"Unknown">>)
            /\ DetectedErrors[i].v[S("severity")] = PyStr(<<"Unknown">>)
            /\ DetectedErrors[i].v[S("timestamp")] = PyStr(<<ai_now>>)
            /\ DetectedErrors[i].v[S("message")].v \in ResponseLines

\* C12 amended: in both decode-failure cases the errors come from the
\* heuristic extractor: every line containing "ERROR" yields an error, and
\* every error has root_cause "Unknown - parsed from unstructured response",
\* severity "Unknown", the current time as timestamp, and as message a line
\* of the response stripped of its surrounding whitespace.
C12_HeuristicErrorsStripped ==
    HeuristicCase =>
        /\ \A i \in 1..Len(DetectedErrors) :
            /\ DetectedErrors[i].v[S("root_cause")]
                 = PyStr(<<"Unknown - parsed from unstructured response">>)
            /\ DetectedErrors[i].v[S("severity")] = PyStr(<<"Unknown">>)
            /\ DetectedErrors[i].v[S("timestamp")] = PyStr(<<ai_now>>)
            /\ \E line \in ResponseLines : DetectedErrors[i].v[S("message")].v = Strip(line)
        /\ \A line \in ResponseLines :
               (\E k \in 1..Len(line) : line[k] = "ERROR") =>
                   \E i \in 1..Len(DetectedErrors) :
                       DetectedErrors[i].v[S("message")].v = Strip(line)

C12_Witness ==
    /\ TextExamined /\ DecodeFails(ResponseText)
    /\ Len(DetectedErrors) = 2
    /\ DetectedErrors[2].v[S("message")].v = <<"ERROR">>
    /\ ai_now = "12:01"

\* find_solutions was called directly and has returned
Solved == pc = "done" /\ calls.remediation = 1 /\ synapt_in # Unset

\* the argument is a non-empty sequence of DetectedErrors
ErrorsGiven ==
    /\ Solved /\ synapt_in.t = "list" /\ synapt_in.v # << >>
    /\ \A i \in 1..Len(synapt_in.v) : synapt_in.v[i].t = "dict"

HasMessage(e) ==
    /\ S("message") \in DOMAIN e.v
    /\ e.v[S("message")] \notin {PyStr(<< >>), PyNone}

\* the errors that have a non-empty message, in order
Actionable == SelectSeq(synapt_in.v, HasMessage)

Recommendations == solution.v[S("recommendations")].v

\* C13: for every non-empty errors sequence the recommendations hold
\* exactly one Recommendation for each DetectedError with a non-empty
\* message, in order, and none for an empty or missing message, whatever
\* the state of the knowledge-store connection.
C13_OneRecommendationPerMessage ==
    ErrorsGiven =>
        /\ Len(Recommendations) = Len(Actionable)
        /\ \A i \in 1..Len(Recommendations) :
               Recommendations[i].v[S("error")] = Actionable[i].v[S("message")]

\* a connection was obtained during the call
ConnectionObtained == Solved /\ requests.db_connects = 1 /\ conn = "open"

\* the position, among the recommendations, of the one for the i-th error
RecIndex(i) == Cardinality({k \in 1..i : HasMessage(synapt_in.v[k])})

\* the query issued for the i-th error raised
LookupRaised(i) ==
    /\ HasMessage(synapt_in.v[i]) /\ synapt_in.v[i].v[S("message")].t = "str"
    /\ i \in synapt_db.fails

\* C14: when the lookup for one error raises, that error gets a placeholder
\* Recommendation with confidence 0, no steps and the exception text in
\* `solution`; every later error is still processed, so the number of
\* recommendations does not depend on which lookups failed.
C14_FailedLookupIsPlaceholder ==
    (ErrorsGiven /\ ConnectionObtained) =>
        /\ Len(Recommendations) = Len(Actionable)
        /\ \A i \in 1..Len(synapt_in.v) :
               LookupRaised(i) =>
                   Recommendations[RecIndex(i)] =
                       PyDict((S("error") :> synapt_in.v[i].v[S("message")])
                           @@ (S("solution") :> PyStr(<<"Error retrieving solution: ",
                                                        "OperationalError">>))
                           @@ (S("confidence") :> PyNum("0"))
                           @@ (S("steps") :> PyList(<< >>)))

C14_Witness ==
    /\ ErrorsGiven /\ ConnectionObtained
    /\ Len(synapt_in.v) = 2 /\ LookupRaised(1) /\ 2 \notin synapt_db.fails
    /\ Len(Recommendations) = 2
    /\ S("id") \in DOMAIN Recommendations[2].v

\* the recommendations built from a catalogue row
Matched == {i \in 1..Len(Recommendations) : S("id") \in DOMAIN Recommendations[i].v}

CountAsText(n) == <<"0", "1", "2", "3", "4">>[n + 1]

\* C15: the summary reports N found out of M, where N is the number of
\* errors that received a non-placeholder recommendation (a catalogue
\* match, whatever its stored confidence) and M the number of errors
\* considered.
C15_SummaryCountsMatches ==
    (ErrorsGiven /\ ConnectionObtained) =>
        solution.v[S("summary")].v =
            <<"Found ", CountAsText(Cardinality(Matched)), " solution(s) for ",
              CountAsText(Len(Actionable)), " identified errors.">>

\* connectivity failures of the three backends during a submission
SearchFailed == logs = PyNone

AnalysisFailed ==
    /\ calls.analysis = 1 /\ error_analysis # Unset
    /\ \/ ~ai_cfg
       \/ ai_http.kind = "raise"
       \/ ai_http.kind = "response" /\ ai_http.status # 200

RemediationFailed ==
    /\ calls.remediation = 1 /\ solution # Unset
    /\ \/ ~synapt_cfg
       \/ requests.db_connects = 1 /\ conn = "none"

ErrorBannerShown ==
    \E i \in 1..Len(ui) :
        ui[i] \in {"error: Error connecting to the log service. Please check your connection and try again.",
                   "error: Work Order and Task Name are required fields",
                   "error: End time must be after start time"}

SuccessShown ==
    \E i \in 1..Len(ui) :
        ui[i] \in {"success: No errors detected in the logs.",
                   "success: No errors detected, no solutions needed."}

\* C16: whenever a backend used during a submission fails for connectivity
\* reasons (unreachable, unconfigured, or a non-success status), the UI
\* shows an inline error banner rather than a success or 'no errors'
\* message.
C16_FailureShowsErrorBanner ==
    (pc = "done" /\ (SearchFailed \/ AnalysisFailed \/ RemediationFailed)) =>
        ErrorBannerShown /\ ~SuccessShown

\* the single row of the table stores the step list c in some encoding
StoresSteps(c) ==
    /\ ErrorsGiven /\ ConnectionObtained
    /\ Len(synapt_db.catalogue) = 1
    /\ synapt_db.catalogue[1].v[S("solution_steps")] \in Encodings(c)

\* C17: a JSON-array string, a newline-delimited string and a native
\* sequence of equal content all normalize to the same ordered sequence of
\* step strings in the Recommendation.
C17_EncodingsNormalizeAlike ==
    \A c \in StepContents :
        StoresSteps(c) =>
            \A i \in Matched :
                Recommendations[i].v[S("steps")] = PyList([k \in 1..Len(c) |-> PyStr(c[k])])


\* the text contains sub as a literal substring, letter case aside
HoldsLiterally(text, sub) ==
    \E k \in 0..(Len(text) - Len(sub)) :
        SubSeq(Lower(text), k + 1, k + Len(sub)) = Lower(sub)

\* the first 50 characters of the message of the i-th error
MessagePrefix(i) ==
    SubSeq(synapt_in.v[i].v[S("message")].v, 1,
           IF Len(synapt_in.v[i].v[S("message")].v) < PrefixLen
           THEN Len(synapt_in.v[i].v[S("message")].v) ELSE PrefixLen)

\* the rows whose stored error_message contains the prefix of the i-th message
Candidates(i) ==
    {k \in 1..Len(synapt_db.catalogue) :
        /\ synapt_db.catalogue[k].v[S("error_message")].t = "str"
        /\ HoldsLiterally(synapt_db.catalogue[k].v[S("error_message")].v, MessagePrefix(i))}

\* the stored confidence of a row as a number of tenths, a row without one
\* ranking below every row that has one
StoredConfidence(row) ==
    CASE row.v[S("confidence")] = PyNum("0.9") -> 9
      [] row.v[S("confidence")] = PyNum("0.5") -> 5
      [] row.v[S("confidence")] = PyNum("0") -> 0
      [] OTHER -> -1

\* the lookup for the i-th error was issued and answered
LookupAnswered(i) ==
    /\ HasMessage(synapt_in.v[i]) /\ synapt_in.v[i].v[S("message")].t = "str"
    /\ i \notin synapt_db.fails

\* the answer of the knowledge store to the lookup for the i-th error
Selected(i) == Answer(synapt_db, i, synapt_in.v[i].v[S("message")])

\* C18: for each error with a non-empty message the lookup selects a row
\* if and only if some row's error_message contains, as a case-insensitive
\* literal substring, the first 50 characters of the message; the row it
\* returns is one of these and has the highest stored confidence among them.
C18_LiteralSubstringBestMatch ==
    (ErrorsGiven /\ ConnectionObtained) =>
        \A i \in 1..Len(synapt_in.v) :
            LookupAnswered(i) =>
                /\ (Selected(i).kind = "row") <=> (Candidates(i) # {})
                /\ (Selected(i).kind = "row") =>
                       \E k \in Candidates(i) :
                           /\ Selected(i).row = synapt_db.catalogue[k]
                           /\ \A j \in Candidates(i) :
                                  StoredConfidence(synapt_db.catalogue[j])
                                    <= StoredConfidence(synapt_db.catalogue[k])


\* the lookup for the i-th error was answered and returned no row
NoRowMatched(i) == LookupAnswered(i) /\ Selected(i).kind = "none"

\* C19: when the lookup for an error with a non-empty message matches no
\* catalogue row, the Recommendation emitted for that error is the
\* placeholder: solution "No solution found in the knowledge base.",
\* confidence 0 and an empty steps sequence.
C19_NoMatchIsPlaceholder ==
    (ErrorsGiven /\ ConnectionObtained) =>
        \A i \in 1..Len(synapt_in.v) :
            NoRowMatched(i) =>
                /\ RecIndex(i) \in 1..Len(Recommendations)
                /\ Recommendations[RecIndex(i)] =
                       PyDict((S("error") :> synapt_in.v[i].v[S("message")])
                           @@ (S("solution") :> PyStr(<<"No solution found in the knowledge base.">>))
                           @@ (S("confidence") :> PyNum("0"))
                           @@ (S("steps") :> PyList(<< >>)))

C19_Witness ==
    /\ ErrorsGiven /\ ConnectionObtained
    /\ Len(synapt_in.v) = 2 /\ Len(synapt_db.catalogue) = 2
    /\ NoRowMatched(1) /\ LookupAnswered(2) /\ Selected(2).kind = "row"
    /\ Recommendations[1].v[S("solution")] = PyStr(<<"No solution found in the knowledge base.">>)
    /\ 2 \in Matched


\* find_solutions was called with an empty errors sequence
EmptyErrorsGiven == Solved /\ synapt_in = PyList(<< >>)

\* C20: find_solutions called with an empty errors sequence returns exactly
\* {recommendations: [], summary: "No errors to find solutions for."}, the
\* value the orchestration uses when it skips the stage, and neither opens
\* a database connection nor issues a lookup.
C20_EmptyErrorsLiteralNoDatabase ==
    EmptyErrorsGiven =>
        /\ solution = PyDict((S("recommendations") :> PyList(<< >>))
                          @@ (S("summary") :> PyStr(<<"No errors to find solutions for.">>)))
        /\ solution = NoErrorsSolution
        /\ requests.db_connects = 0 /\ requests.db_queries = 0
        /\ conn = "none"

C20_Witness ==
    /\ EmptyErrorsGiven /\ synapt_cfg
    /\ solution = NoErrorsSolution
    /\ requests.db_connects = 0 /\ conn = "none"


\* a direct call of retrieve_logs has returned a list
SearchListed == calls.search = 1 /\ pc \in {"listing", "done"} /\ logs.t = "list"

\* the instants a form can name, ordered by date and then time of day
Instants == [d : 1..(MaxDate + 2), t : 1..(MaxTime + 2)]

NotAfter(a, b) == a.d < b.d \/ (a.d = b.d /\ a.t <= b.t)

\* the instants a value is the text of
InstantsOf(x) == {i \in Instants : x = PyStr(Stamp(i.d, i.t))}

\* the value is a timestamp within the range passed to retrieve_logs
WithinRange(x) ==
    \E i \in InstantsOf(x), a \in InstantsOf(search_args.start_time),
       b \in InstantsOf(search_args.end_time) : NotAfter(a, i) /\ NotAfter(i, b)

\* C21: every entry of a non-failure Search result has a timestamp within
\* the inclusive range [start_time, end_time] passed to retrieve_logs,
\* whichever synonym field it was resolved from.
C21_EntriesWithinRange ==
    SearchListed => \A i \in 1..Len(logs.v) : WithinRange(logs.v[i].v[S("timestamp")])

\* the method called in this state
LastCalled(method) == events = <<method>>

SearchUnconfigured == calls.search = 1 /\ ~elk_is_configured(elk_cfg)
AnalysisUnconfigured == calls.analysis = 1 /\ ~ai_cfg
RemediationUnconfigured == calls.remediation = 1 /\ ~synapt_cfg

\* C22: a client that is not configured never attempts a backend call:
\* retrieve_logs returns the failure value without an HTTP request,
\* analyze_logs returns a result with no errors without a request, and
\* get_connection, find_solutions and test_connection return without a
\* database connection attempt; neither do the two HTTP probes send anything.
C22_UnconfiguredNeverCalls ==
    /\ SearchUnconfigured =>
          /\ requests.elk = 0
          /\ events = <<"search_call", "search_return">> => out.val = PyNone
    /\ AnalysisUnconfigured =>
          /\ requests.ai = 0
          /\ events = <<"analysis_call", "analysis_return">> =>
                out.val.t = "dict" /\ out.val.v[S("errors")] = PyList(<< >>)
    /\ RemediationUnconfigured =>
          /\ requests.db_connects = 0 /\ requests.db_queries = 0 /\ conn = "none"
          /\ LastCalled("SynaptService.get_connection") => out.val = PyNone

\* each of the five calls named has been made on an unconfigured client
C22_Witness ==
    /\ RemediationUnconfigured
    /\ events = <<"remediation_call", "remediation_return">>
    /\ Truthy(synapt_in)


\* a step that is one more call of a SynaptService method
SynaptCall == calls'.remediation = calls.remediation + 1

Connects == requests'.db_connects > requests.db_connects

\* C23: over any sequence of get_connection, test_connection, find_solutions
\* and close_connection on one SynaptService instance, a new connection is
\* opened only when none is held or the held one is closed; while the held
\* connection is open every get_connection returns that same connection;
\* find_solutions and test_connection leave the connection open.
C23_ConnectionReused ==
    [][/\ Connects => conn \in {"none", "closed"}
       /\ (SynaptCall /\ conn = "open" /\ events' = <<"SynaptService.get_connection">>) =>
              /\ out'.val = Connection
              /\ conn' = "open"
              /\ ~Connects
       /\ (SynaptCall /\ conn = "open"
             /\ events' \in {<<"SynaptService.test_connection">>,
                             <<"remediation_call", "remediation_return">>}) =>
              conn' = "open"]_vars

\* a get_connection found the connection of an earlier call open and
\* returned it without connecting
C23_Witness ==
    /\ calls.remediation >= 2
    /\ LastCalled("SynaptService.get_connection")
    /\ out.val = Connection /\ out.requests = 0
    /\ conn = "open"

\* the hits of the response a returned list was built from
HitsListed == elk_http.body.v[S("hits")].v[S("hits")].v

\* the source mapping of the i-th hit
SourceOf(i) == Get(HitsListed[i], S("_source"), PyDict(<< >>))

Has(source, key) == S(key) \in DOMAIN source.v

\* the value under the first of the keys the source has, the empty string
\* when it has none
FirstPresent(source, keys) ==
    IF \A k \in 1..Len(keys) : ~Has(source, keys[k]) THEN PyStr(<< >>)
    ELSE source.v[S(keys[CHOOSE k \in 1..Len(keys) :
                            /\ Has(source, keys[k])
                            /\ \A j \in 1..(k - 1) : ~Has(source, keys[j])])]

\* the entry carries `to` exactly when the source has `from`, with its value
CopiedExactly(entry, source, from, to) ==
    /\ S(to) \in DOMAIN entry.v <=> Has(source, from)
    /\ Has(source, from) => entry.v[S(to)] = source.v[S(from)]

\* C24: the fields of a LogEntry are resolved by fixed priority (timestamp
\* from timestamp, @timestamp, time; level from level, log_level, severity;
\* message from message, msg, log_message), the empty string when none is
\* present; `host` is copied exactly when the source has `host`, and
\* `error_details` exactly when the source has `error`.
C24_FieldsByPriority ==
    (SearchListed /\ logs.v # << >>) =>
        \A i \in 1..Len(logs.v) :
            /\ logs.v[i].v[S("timestamp")]
                 = FirstPresent(SourceOf(i), <<"timestamp", "@timestamp", "time">>)
            /\ logs.v[i].v[S("level")]
                 = FirstPresent(SourceOf(i), <<"level", "log_level", "severity">>)
            /\ logs.v[i].v[S("message")]
                 = FirstPresent(SourceOf(i), <<"message", "msg", "log_message">>)
            /\ CopiedExactly(logs.v[i], SourceOf(i), "host", "host")
            /\ CopiedExactly(logs.v[i], SourceOf(i), "error", "error_details")

\* a list with an entry resolved from the third synonyms only, and one whose
\* source has every synonym, `host` and `error`
C24_Witness ==
    /\ SearchListed /\ logs.v # << >>
    /\ \E i \in 1..Len(logs.v) :
          /\ ~Has(SourceOf(i), "timestamp") /\ ~Has(SourceOf(i), "@timestamp")
          /\ Has(SourceOf(i), "time")
          /\ ~Has(SourceOf(i), "host")
    /\ \E i \in 1..Len(logs.v) :
          /\ Has(SourceOf(i), "timestamp") /\ Has(SourceOf(i), "time")
          /\ Has(SourceOf(i), "severity") /\ Has(SourceOf(i), "level")
          /\ Has(SourceOf(i), "host")

\* analyze_logs returned after the backend answered 200
AnsweredOk ==
    /\ calls.analysis = 1 /\ error_analysis.t = "dict"
    /\ Answered(ai_http) /\ ai_http.status = 200

\* the raw response text of the 200 answer, where its envelope yields one
RawText == Get(ai_http.body, S("ai_response"), PyStr(<< >>))

HasRawText == AnsweredOk /\ ai_http.json_ok /\ ai_http.body.t = "dict" /\ RawText.t = "str"

\* the results have been rendered
Rendered == events # << >> /\ events[Len(events)] = "render"

\* the analysis with another value under the key, or without the key
OtherRaw ==
    {SetItem(error_analysis, S("_raw_response"), PyStr(S("<other>"))),
     PyDict([k \in DOMAIN error_analysis.v \ {S("_raw_response")} |-> error_analysis.v[k]])}

EndsWith(shown, tail) ==
    /\ Len(tail) <= Len(shown)
    /\ SubSeq(shown, Len(shown) - Len(tail) + 1, Len(shown)) = tail

\* what is rendered does not depend on the value under `_raw_response`
RenderIgnoresRaw ==
    Rendered => \A a \in OtherRaw : EndsWith(ui, Render(logs, a, solution).shown)

\* C25 as stated: every analysis result built from a 200 backend response
\* has the raw response text under `_raw_response`, and no rendered element
\* is computed from that key.
C25_RawResponseOnEvery200 ==
    /\ AnsweredOk => S("_raw_response") \in DOMAIN error_analysis.v
    /\ RenderIgnoresRaw

\* C25 amended: when the 200 response decodes to a mapping whose
\* `ai_response` is absent or a string, the result has that text under
\* `_raw_response`, whatever the decoded object held under that key; after
\* any other 200 response the result is the exception handler's and has no
\* such key; no rendered element is computed from `_raw_response`.
C25_RawResponseWhereText ==
    /\ HasRawText =>
          /\ S("_raw_response") \in DOMAIN error_analysis.v
          /\ error_analysis.v[S("_raw_response")] = RawText
    /\ (AnsweredOk /\ ~HasRawText) => S("_raw_response") \notin DOMAIN error_analysis.v
    /\ RenderIgnoresRaw

\* the decoded object had its own `_raw_response`, and the results were rendered
C25_Witness ==
    /\ HasRawText /\ Rendered
    /\ \E k \in 1..Len(RawText.v) : RawText.v[k] = "_raw_response"
    /\ error_analysis.v[S("_raw_response")] = RawText

\* a test_connection returned
ProbeReturned ==
    \/ LastCalled("ELKService.test_connection")
    \/ LastCalled("VegasGPTService.test_connection")
    \/ LastCalled("SynaptService.test_connection")

\* the call returned a pair (boolean, status string)
ReturnedPair ==
    /\ pc = "done" /\ ~out.raised
    /\ out.val.t = "tuple" /\ Len(out.val.v) = 2
    /\ out.val.v[1].t = "bool" /\ out.val.v[2].t = "str"

ReportedOk == out.val.t = "tuple" /\ out.val.v[1] = PyBool(TRUE)

\* the k-th exchange of the probe was answered with one of the codes
AnsweredWith(k, codes) ==
    Len(probe_http) >= k /\ Answered(probe_http[k]) /\ probe_http[k].status \in codes

\* the 200 answer is a mapping that has the envelope key
EnvelopeKeyPresent ==
    /\ AnsweredWith(1, {200}) /\ probe_http[1].json_ok
    /\ probe_http[1].body.t = "dict"
    /\ S("ai_response") \in DOMAIN probe_http[1].body.v

\* C26: the three connectivity probes never raise: whatever the
\* configuration and the backend behaviour, test_connection returns a pair
\* (boolean, status string), and the boolean is true only when the backend
\* answered successfully (search: index check 200 or 204, or cluster health
\* 200; analysis: 200 with the envelope key present; relational: the version
\* query succeeded).
C26_ProbesNeverRaiseAndReportTruly ==
    ProbeReturned =>
        /\ ReturnedPair
        /\ (LastCalled("ELKService.test_connection") /\ ReportedOk) =>
              AnsweredWith(1, {200, 204}) \/ AnsweredWith(2, {200})
        /\ (LastCalled("VegasGPTService.test_connection") /\ ReportedOk) => EnvelopeKeyPresent
        /\ (LastCalled("SynaptService.test_connection") /\ ReportedOk) =>
              conn = "open" /\ Len(probe_http) = 1 /\ Answered(probe_http[1])

\* C27: every Recommendation returned by find_solutions carries in `error`
\* the full, untruncated message of the DetectedError it was produced for,
\* and the recommendations are in the relative order of their DetectedErrors
\* in the input.
C27_ErrorEchoedInOrder ==
    ErrorsGiven =>
        \A i \in 1..Len(Recommendations) :
            /\ i <= Len(Actionable)
            /\ Recommendations[i].v[S("error")] = Actionable[i].v[S("message")]

\* a message longer than the prefix sent to the query is echoed in full
C27_Witness ==
    /\ ErrorsGiven
    /\ Recommendations # << >>
    /\ Len(Recommendations[1].v[S("error")].v) > PrefixLen
    /\ Recommendations[1].v[S("error")] = Actionable[1].v[S("message")]

\* the logs tab has been drawn for the list retrieved
Listed == calls.search = 1 /\ pc = "done" /\ logs.t = "list" /\ ui # << >>

\* the level of the i-th retrieved entry, upper-cased
LevelUpper(i) == Upper(Get(logs.v[i], S("level"), PyStr(<< >>)).v)

\* the positions of the retrieved entries whose level is selected
ShownIdx == {i \in 1..Len(logs.v) : LevelUpper(i) \in log_level_filter}

\* C28: the log listing shows exactly the retrieved entries whose level,
\* upper-cased, is in the selected filter set (the default being INFO,
\* WARNING, ERROR), in retrieval order; an entry whose level is SEVERE or
\* WARN is shown for no selection, the options being INFO, WARNING, ERROR,
\* DEBUG and TRACE.
C28_ListingIsFilteredInOrder ==
    Listed =>
        /\ Len(filtered_logs) = Cardinality(ShownIdx)
        /\ \A i \in ShownIdx :
               filtered_logs[Cardinality({k \in ShownIdx : k <= i})] = logs.v[i]
        /\ Len(ui) = 1 + Len(filtered_logs)
        /\ \A i \in 1..Len(logs.v) :
               LevelUpper(i) \in {S("SEVERE"), S("WARN")} => i \notin ShownIdx

\* of three entries the SEVERE one and the one not selected are left out,
\* and the one written in lower case is shown
C28_Witness ==
    /\ Listed /\ Len(logs.v) = 3
    /\ log_level_filter = {S("DEBUG")}
    /\ LevelUpper(1) = S("SEVERE")
    /\ logs.v[3].v[S("level")] = PyStr(S("debug"))
    /\ filtered_logs = <<logs.v[3]>>

\* a direct call of retrieve_logs was answered 200 with a list of hits
HitsAnswered ==
    /\ calls.search = 1 /\ pc \in {"listing", "done"}
    /\ Answered(elk_http) /\ elk_http.status = 200 /\ elk_http.json_ok
    /\ elk_http.body.t = "dict" /\ S("hits") \in DOMAIN elk_http.body.v
    /\ elk_http.body.v[S("hits")].t = "dict"
    /\ S("hits") \in DOMAIN elk_http.body.v[S("hits")].v
    /\ elk_http.body.v[S("hits")].v[S("hits")].t = "list"

\* normalizing or tallying the i-th hit raises: the hit or its source is no
\* mapping, or its level is no string
HitRaises(i) ==
    \/ HitsListed[i].t # "dict"
    \/ SourceOf(i).t # "dict"
    \/ FirstPresent(SourceOf(i), <<"level", "log_level", "severity">>).t # "str"

\* C29: retrieve_logs is all-or-nothing: a returned list has exactly one
\* LogEntry per backend hit, in the order of the hits; if normalizing or
\* tallying any single hit raises (a level that is no string, for one), the
\* call returns None and no partial list.
C29_AllOrNothing ==
    HitsAnswered =>
        /\ logs = out.val
        /\ logs.t \in {"none", "list"}
        /\ logs.t = "list" =>
              /\ Len(logs.v) = Len(HitsListed)
              /\ \A i \in 1..Len(logs.v) :
                     logs.v[i].v[S("message")]
                        = FirstPresent(SourceOf(i), <<"message", "msg", "log_message">>)
        /\ (\E i \in 1..Len(HitsListed) : HitRaises(i)) => logs = PyNone

\* the second of two hits has a level that is no string: nothing is returned
C29_Witness ==
    /\ HitsAnswered /\ Len(HitsListed) = 2
    /\ ~HitRaises(1) /\ HitRaises(2)
    /\ HitsListed[2].t = "dict" /\ SourceOf(2).t = "dict"
    /\ logs = PyNone

\* the positions of the elements of the argument that are no mapping
NotMappings == {i \in 1..Len(synapt_in.v) : synapt_in.v[i].t # "dict"}

\* the loop was entered and met an element that is no mapping
LoopRaised ==
    /\ ConnectionObtained /\ synapt_in.t = "list"
    /\ NotMappings # {}

\* the errors before the first element that is no mapping for which a
\* query is issued
QueriedBeforeRaise ==
    {k \in 1..Len(synapt_in.v) :
        /\ \A i \in NotMappings : k < i
        /\ HasMessage(synapt_in.v[k])
        /\ synapt_in.v[k].v[S("message")].t \in {"str", "list"}}

\* C30: if processing an element of the errors raises outside the per-error
\* lookup guard (an element that is no mapping), find_solutions returns
\* {recommendations: [], summary: "Error retrieving solutions: ..."}: the
\* recommendations computed for earlier errors are discarded and no later
\* error is processed.
C30_LoopExceptionDiscardsAll ==
    LoopRaised =>
        /\ DOMAIN solution.v = {S("recommendations"), S("summary")}
        /\ Recommendations = << >>
        /\ solution.v[S("summary")].t = "str"
        /\ solution.v[S("summary")].v[1] = "Error retrieving solutions: "
        /\ requests.db_queries = Cardinality(QueriedBeforeRaise)

\* the first error was looked up, the second element raised
C30_Witness ==
    /\ LoopRaised /\ NotMappings = {2}
    /\ QueriedBeforeRaise = {1}
    /\ requests.db_queries = 1
    /\ Recommendations = << >>

=============================================================================
